---- MODULE Spec2Model ----
(***************************************************************************)
(* Hybrid MCTS + Stockfish filter (Fauzanjr07/chess_hybrid).               *)
(*                                                                         *)
(* Three layers, leaves first, as in the sources:                          *)
(*   src/src/uci_engine.py        UCIEngine        (protocol client)       *)
(*   src/src/stockfish_filter.py  StockfishFilter  (cache + pruning)       *)
(*   src/src/mcts_core.py         MCTS, MCTSNode   (search tree)           *)
(*                                                                         *)
(* python-chess is an external library: a position is an opaque value with *)
(* legal moves, a successor per move, a game-over/result query and a FEN.  *)
(* It is modelled by a small fixed game graph (GameLegal, GameSucc, ...).  *)
(***************************************************************************)
EXTENDS Integers, Sequences, FiniteSets, TLC

\* ------------------------------------------------------------------ bounds

\* Largest n_sim handed to run_simulations.
MaxSims == 4
\* Largest top_k the filter is configured with (the smallest is -1).
MaxTopK == 2
\* Largest number of go_and_get calls on one UCIEngine.
MaxGo == 2
\* Lines a pipe (the engine's stdin, its stdout) holds unread before a
\* write to it would block.
MaxPipe == 1
\* Seconds by which the clock advances in one step.
TickSeconds == 5
\* Largest number of lines a long search prints before its bestmove line.
MaxInfo == 2
\* Largest number of quit calls on one UCIEngine.
MaxQuit == 2
\* Largest number of ucinewgame calls on one UCIEngine.
MaxNewGame == 1

\* ------------------------------------------------------- the game (chess)

Moves == {"a", "b", "c"}
Positions == 1..9

\* list(board.legal_moves): the library's enumeration order.
GameLegal(p) ==
    CASE p = 1 -> <<"a", "b", "c">>
      [] p = 2 -> <<"a", "b">>
      [] p = 3 -> <<"a">>
      [] p = 5 -> <<"a", "b">>
      [] p = 6 -> <<"a">>
      [] p = 8 -> <<"a">>
      [] OTHER -> <<>>

\* The position after board.push(mv). 2-a and 3-a transpose into 5.
GameSucc(p, m) ==
    CASE p = 1 /\ m = "a" -> 2
      [] p = 1 /\ m = "b" -> 3
      [] p = 1 /\ m = "c" -> 4
      [] p = 2 /\ m = "a" -> 5
      [] p = 2 /\ m = "b" -> 6
      [] p = 3 /\ m = "a" -> 5
      [] p = 5 /\ m = "a" -> 7
      [] p = 5 /\ m = "b" -> 8
      [] p = 6 /\ m = "a" -> 9
      [] p = 8 /\ m = "a" -> 9
      [] OTHER -> p

\* board.turn: the side to move.
GameTurn(p) == IF p \in {1, 5, 6, 9} THEN "WHITE" ELSE "BLACK"

\* board.result(): 4, 7 and 9 are checkmates (the side to move is mated),
\* 6 is a draw by rule in which moves are still legal.
GameResult(p) ==
    CASE p \in {4, 7} -> "1-0"
      [] p = 9 -> "0-1"
      [] p = 6 -> "1/2-1/2"
      [] OTHER -> "*"

\* board.is_game_over()
GameOver(p) == GameResult(p) # "*"

\* A chess.Board is its stack of positions; the last one is the current one.
Cur(board) == board[Len(board)]
\* board.push(mv)
Push(board, m) == Append(board, GameSucc(Cur(board), m))
\* board.pop()
Pop(board) == SubSeq(board, 1, Len(board) - 1)
\* board.fen(): the canonical key of the current position, history dropped.
Fen(board) == <<"fen", Cur(board)>>
\* MCTSNode.legal_moves
LegalMoves(board) == GameLegal(Cur(board))

SeqToSet(s) == {s[i] : i \in 1..Len(s)}

Min(x, y) == IF x <= y THEN x ELSE y
Max(x, y) == IF x >= y THEN x ELSE y

\* s[:k - 1] for s[:k].
TakeFirstOffByOne(s, k) ==
    SubSeq(s, 1, IF k - 1 >= 0 THEN Min(k - 1, Len(s)) ELSE Max(Len(s) + k - 1, 0))

\* s[:k], Python's slice: a negative k drops the last -k elements.
TakeFirst(s, k) ==
    SubSeq(s, 1, IF k >= 0 THEN Min(k, Len(s)) ELSE Max(Len(s) + k, 0))

\* ------------------------------------------- StockfishFilter (the filter)

\* What the evaluator reports for a search request (go_and_get's cp_score).
Scores == {-200, -100}
\* StockfishFilter.threshold_cp
Thresholds == {-100, 0}
\* StockfishFilter.top_k
TopKs == (-1)..MaxTopK

\* One engine.position_fen + engine.go_and_get exchange either returns a
\* score or raises TimeoutError (UCIEngine._read_until).
Answers == [ok : {TRUE}, cp : Scores] \cup {[ok |-> FALSE, cp |-> 0]}
Fens == {<<"fen", p>> : p \in Positions}
\* No position.
NoFen == <<"fen", 0>>
NoCache == [f \in {} |-> 0]

\* A store that drops the other entries of the cache.
CachePutOnly(c, fen, cp) == [f \in {fen} |-> cp]

\* self.cache[fen] = cp_score
CachePut(c, fen, cp) ==
    [f \in DOMAIN c \cup {fen} |-> IF f = fen THEN cp ELSE c[f]]

\* eval_board without "self.cache[fen] = cp_score".
EvalBoardNoStore(c, board, ans) ==
    LET fen == Fen(board)
    IN  IF fen \in DOMAIN c
        THEN [cache |-> c, cp |-> c[fen], raised |-> FALSE, reqs |-> <<>>]
        ELSE IF ~ans[fen].ok
        THEN [cache |-> c, cp |-> 0, raised |-> TRUE, reqs |-> <<fen>>]
        ELSE [cache |-> c, cp |-> ans[fen].cp, raised |-> FALSE,
              reqs |-> <<fen>>]

\* StockfishFilter.eval_board; ans is what the evaluator does when asked.
\* reqs lists the positions sent to the evaluator by this call.
EvalBoard(c, board, ans) ==
    LET fen == Fen(board)
    IN  IF fen \in DOMAIN c
        THEN [cache |-> c, cp |-> c[fen], raised |-> FALSE, reqs |-> <<>>]
        ELSE IF ~ans[fen].ok
        THEN [cache |-> c, cp |-> 0, raised |-> TRUE, reqs |-> <<fen>>]
        ELSE [cache |-> CachePut(c, fen, ans[fen].cp), cp |-> ans[fen].cp,
              raised |-> FALSE, reqs |-> <<fen>>]

\* priors.get(m, 0.0)
PriorOf(priors, m) == IF m \in DOMAIN priors THEN priors[m] ELSE 0

\* sorted(candidate_moves, key=lambda m: priors.get(m, 0.0), reverse=True):
\* a stable sort, so x comes before y when its prior is greater, or when the
\* priors are equal and x was first in candidate_moves.
SortByPrior(cands, priors) ==
    LET n == Len(cands)
        Key(i) == PriorOf(priors, cands[i])
        Rank(i) == 1 + Cardinality({j \in 1..n :
                        Key(j) > Key(i) \/ (Key(j) = Key(i) /\ j < i)})
    IN  [r \in 1..n |-> cands[CHOOSE i \in 1..n : Rank(i) = r]]

\* The loop of filter_moves over ordered[:top_k]: push, eval_board, pop,
\* append. An exception of eval_board leaves the loop with the move pushed.
RECURSIVE ScoreMoves(_, _, _)
ScoreMoves(todo, st, ans) ==
    IF todo = <<>> \/ st.raised THEN st
    ELSE LET mv == Head(todo)
             pushed == Push(st.board, mv)
             ev == EvalBoard(st.cache, pushed, ans)
         IN  IF ev.raised
             THEN [st EXCEPT !.board = pushed, !.raised = TRUE,
                             !.reqs = @ \o ev.reqs]
             ELSE ScoreMoves(Tail(todo),
                             [st EXCEPT !.cache = ev.cache,
                                        !.board = Pop(pushed),
                                        !.scored = Append(@, <<mv, ev.cp>>),
                                        !.reqs = @ \o ev.reqs],
                             ans)

\* max(scored, key=lambda t: t[1]): the first of the maximal elements.
RECURSIVE MaxScored(_, _)
MaxScored(scored, best) ==
    IF scored = <<>> THEN best
    ELSE MaxScored(Tail(scored),
                   IF Head(scored)[2] > best[2] THEN Head(scored) ELSE best)

\* kept without the fallback to the best scored move.
KeptNoFallback(scored, threshold) ==
    LET passed == SelectSeq(scored, LAMBDA t : t[2] >= threshold)
    IN  [i \in 1..Len(passed) |-> passed[i][1]]

\* kept with a fallback to all the scored moves instead of the best one.
KeptAllOnFallback(scored, threshold) ==
    LET passed == SelectSeq(scored, LAMBDA t : t[2] >= threshold)
    IN  IF passed = <<>>
        THEN [i \in 1..Len(scored) |-> scored[i][1]]
        ELSE [i \in 1..Len(passed) |-> passed[i][1]]

\* kept with the comparison cp_val > threshold_cp.
KeptStrict(scored, threshold) ==
    LET passed == SelectSeq(scored, LAMBDA t : t[2] > threshold)
        accepted == [i \in 1..Len(passed) |-> passed[i][1]]
    IN  IF accepted = <<>> /\ scored # <<>>
        THEN <<MaxScored(Tail(scored), Head(scored))[1]>>
        ELSE accepted

\* kept: the scored moves with cp_val >= threshold_cp, or, when there is
\* none and something was scored, the one move with the highest cp_val.
KeptOf(scored, threshold) ==
    LET passed == SelectSeq(scored, LAMBDA t : t[2] >= threshold)
        accepted == [i \in 1..Len(passed) |-> passed[i][1]]
    IN  IF accepted = <<>> /\ scored # <<>>
        THEN <<MaxScored(Tail(scored), Head(scored))[1]>>
        ELSE accepted

\* StockfishFilter.filter_moves
FilterMoves(c, board, cands, priors, threshold, topK, ans) ==
    LET ordered == IF DOMAIN priors # {}
                   THEN SortByPrior(cands, priors) ELSE cands
        st == ScoreMoves(TakeFirst(ordered, topK),
                         [cache |-> c, board |-> board, scored |-> <<>>,
                          reqs |-> <<>>, raised |-> FALSE],
                         ans)
    IN  [kept |-> IF st.raised THEN <<>> ELSE KeptOf(st.scored, threshold),
         scored |-> st.scored, cache |-> st.cache, board |-> st.board,
         reqs |-> st.reqs, raised |-> st.raised]

\* ------------------------------------------------------- MCTSNode, MCTS

\* Priors are kept as numerators over PriorScale, so 1/len(moves) is exact
\* for the one, two or three legal moves of the game graph.
PriorScale == 2 * 3
\* MCTS.ucb_c = 1.5 = UcbCNum / UcbCDen
UcbCNum == 3
UcbCDen == 2
NoPrior == [m \in {} |-> 0]
NoNode == 0
NoMove == "none"

\* NewNode with the parent link lost.
NewNodeOrphan(board, parent, move) ==
    [board |-> board, parent |-> NoNode, move |-> move, children |-> <<>>,
     N |-> 0, W |-> 0, P |-> NoPrior, terminal |-> FALSE]

\* MCTSNode(board=..., parent=..., move=...): the dataclass defaults.
NewNode(board, parent, move) ==
    [board |-> board, parent |-> parent, move |-> move, children |-> <<>>,
     N |-> 0, W |-> 0, P |-> NoPrior, terminal |-> FALSE]

\* A lookup that never finds the child ("mv not in node.children" always).
ChildOfNone(node, mv) == NoNode

\* node.children.get(mv): children is a dict, kept in insertion order as a
\* sequence of <<move, node id>>.
ChildOf(node, mv) ==
    IF \E i \in 1..Len(node.children) : node.children[i][1] = mv
    THEN node.children[CHOOSE i \in 1..Len(node.children) :
                           node.children[i][1] = mv][2]
    ELSE NoNode

\* PriorProvider.get_prior: uniform over the moves.
GetPrior(moves) ==
    [m \in SeqToSet(moves) |-> PriorScale \div Max(1, Len(moves))]

\* MCTSNode.Q as a fraction <<numerator, denominator>>.
QFrac(t, id, mv) ==
    LET ch == ChildOf(t[id], mv)
    IN  IF ch = NoNode \/ t[ch].N = 0 THEN <<0, 1>> ELSE <<t[ch].W, t[ch].N>>

\* MCTSNode.N_move
NMove(t, id, mv) ==
    LET ch == ChildOf(t[id], mv) IN IF ch = NoNode THEN 0 ELSE t[ch].N

\* ---- Python floats (IEEE 754 binary64) ----
\* A float is [s |-> sign, m |-> mantissa, e |-> exponent], the number
\* s * m * 2^e: s is 1, -1 or 0, and m is a sequence of MantBits binary
\* digits, the first one 1 (<<>> when the number is zero).  Numbers wider
\* than an integer of the model are sequences of binary digits, highest
\* digit first.
MantBits == 53
\* Zero digits put below a dividend, so that the quotient of a division by
\* an integer of the model has more than MantBits digits before it is
\* rounded.
GuardBits == MantBits + 32

FZero == [s |-> 0, m |-> <<>>, e |-> 0]

Zeros(n) == [i \in 1..n |-> 0]

\* The digits of the natural number n.
RECURSIVE Bits(_)
Bits(n) == IF n = 0 THEN <<>> ELSE Append(Bits(n \div 2), n % 2)

\* b without its leading zeros.
Trim(b) ==
    IF \A i \in 1..Len(b) : b[i] = 0 THEN <<>>
    ELSE SubSeq(b, CHOOSE i \in 1..Len(b) :
                        b[i] = 1 /\ \A j \in 1..(i - 1) : b[j] = 0, Len(b))

\* b with its digits in the opposite order: lowest digit first.
Reverse(b) == [i \in 1..Len(b) |-> b[Len(b) + 1 - i]]

\* The number with the digits r.d, lowest first, below the carry r.c.
Joined(r) == Trim(Bits(r.c) \o Reverse(r.d))

\* Digits lo..hi of b * k for a small natural k, b lowest digit first, with
\* the carry c coming in from below lo: the digits d, lowest first, and the
\* carry c going out above hi.
RECURSIVE MulRange(_, _, _, _, _)
MulRange(b, k, lo, hi, c) ==
    IF lo > hi THEN [d |-> <<>>, c |-> c]
    ELSE IF lo = hi
    THEN [d |-> <<(b[lo] * k + c) % 2>>, c |-> (b[lo] * k + c) \div 2]
    ELSE LET mid == (lo + hi) \div 2
             low == MulRange(b, k, lo, mid, c)
             high == MulRange(b, k, mid + 1, hi, low.c)
         IN  [d |-> low.d \o high.d, c |-> high.c]

MulSmall(b, k) == Joined(MulRange(Reverse(b), k, 1, Len(b), 0))

\* Digits lo..hi of b divided by a small d > 0, with the remainder r coming
\* in from above lo: the quotient digits q and the remainder r going out.
RECURSIVE DivRange(_, _, _, _, _)
DivRange(b, d, lo, hi, r) ==
    IF lo > hi THEN [q |-> <<>>, r |-> r]
    ELSE IF lo = hi
    THEN [q |-> <<(2 * r + b[lo]) \div d>>, r |-> (2 * r + b[lo]) % d]
    ELSE LET mid == (lo + hi) \div 2
             high == DivRange(b, d, lo, mid, r)
             low == DivRange(b, d, mid + 1, hi, high.r)
         IN  [q |-> high.q \o low.q, r |-> low.r]

\* b divided by a small d > 0: the quotient q and the remainder r.
DivSmall(b, d) == DivRange(b, d, 1, Len(b), 0)

\* Digits lo..hi of x + y (sign 1) or x - y (sign -1) for two digit
\* sequences of one length, lowest digit first, with the carry or borrow c
\* coming in from below lo: the digits d, lowest first, and the carry or
\* borrow c going out above hi.
RECURSIVE AddRange(_, _, _, _, _, _)
AddRange(x, y, sign, lo, hi, c) ==
    IF lo > hi THEN [d |-> <<>>, c |-> c]
    ELSE IF lo = hi
    THEN [d |-> <<(x[lo] + sign * (y[lo] + c)) % 2>>,
          c |-> IF x[lo] + sign * (y[lo] + c) \in {0, 1} THEN 0 ELSE 1]
    ELSE LET mid == (lo + hi) \div 2
             low == AddRange(x, y, sign, lo, mid, c)
             high == AddRange(x, y, sign, mid + 1, hi, low.c)
         IN  [d |-> low.d \o high.d, c |-> high.c]

PadTo(b, n) == Zeros(n - Len(b)) \o b

\* x + y (sign 1), or x - y (sign -1), for x >= y.
AddSub(x, y, sign) ==
    Joined(AddRange(Reverse(x), Reverse(PadTo(y, Len(x))), sign, 1, Len(x), 0))

\* 1, 0 or -1 as x is greater than, equal to or less than y, for two digit
\* sequences without leading zeros.
CompareBits(x, y) ==
    IF Len(x) # Len(y) THEN (IF Len(x) > Len(y) THEN 1 ELSE -1)
    ELSE IF x = y THEN 0
    ELSE IF \E i \in 1..Len(x) : x[i] > y[i] /\ \A j \in 1..(i - 1) : x[j] = y[j]
    THEN 1
    ELSE -1

\* The float s * keep * 2^e, or the one above it in size.
RoundUp(s, keep, e, up) ==
    IF ~up THEN [s |-> s, m |-> keep, e |-> e]
    ELSE IF \A i \in 1..MantBits : keep[i] = 1
    THEN [s |-> s, m |-> <<1>> \o Zeros(MantBits - 1), e |-> e + 1]
    ELSE [s |-> s, m |-> PadTo(AddSub(keep, <<1>>, 1), MantBits), e |-> e]

\* The float nearest to s * b * 2^e, ties to the even mantissa, for b
\* without leading zeros; sticky says that the exact number is a little
\* more than b * 2^e (a division left a remainder).
RoundFloat(s, b, e, sticky) ==
    IF b = <<>> THEN FZero
    ELSE IF Len(b) <= MantBits
    THEN [s |-> s, m |-> b \o Zeros(MantBits - Len(b)),
          e |-> e - (MantBits - Len(b))]
    ELSE RoundUp(s, SubSeq(b, 1, MantBits), e + (Len(b) - MantBits),
                 /\ b[MantBits + 1] = 1
                 /\ \/ sticky
                    \/ b[MantBits] = 1
                    \/ \E i \in (MantBits + 2)..Len(b) : b[i] = 1)

\* The float nearest to s * 2^e times the quotient r.q with remainder r.r.
RoundQuotient(s, r, e) == RoundFloat(s, Trim(r.q), e, r.r # 0)

\* Python's float(a) / float(d) for integers a and d > 0.
FDivInt(a, d) ==
    RoundQuotient(IF a < 0 THEN -1 ELSE 1,
                  DivSmall(Bits(IF a < 0 THEN -a ELSE a) \o Zeros(GuardBits), d),
                  -GuardBits)

\* Python's x * k / d rounded once, for a float x and small naturals k, d
\* whose quotient k / d is itself a float: x * 1.5, x * 4.0, x / 3.
FScale(x, k, d) ==
    RoundQuotient(x.s, DivSmall(MulSmall(x.m, k) \o Zeros(GuardBits), d),
                  x.e - GuardBits)

\* x + y for two digit sequences.
Sum(x, y) ==
    IF Len(x) >= Len(y) THEN AddSub(x, y, 1) ELSE AddSub(y, x, 1)

\* x times the number made of the digits lo..hi of y.
RECURSIVE MulBitsRange(_, _, _, _)
MulBitsRange(x, y, lo, hi) ==
    IF lo = hi THEN (IF y[lo] = 1 THEN x ELSE <<>>)
    ELSE Sum(MulBitsRange(x, y, lo, (lo + hi) \div 2)
                \o Zeros(hi - (lo + hi) \div 2),
             MulBitsRange(x, y, (lo + hi) \div 2 + 1, hi))

\* Python's x * y for floats.
FMul(x, y) ==
    IF x.s = 0 \/ y.s = 0 THEN FZero
    ELSE RoundFloat(x.s * y.s, Trim(MulBitsRange(x.m, y.m, 1, MantBits)),
                    x.e + y.e, FALSE)

\* Pairs of zero digits put below the digits of a number, so that its
\* square root has more than MantBits digits before it is rounded.
SqrtGuard == MantBits + 1

\* The square root of the number b, an even count of digits, pair by pair
\* from pair i on: root is the root of the pairs before i and rem what they
\* leave. The result is the whole root, rounded down, and the remainder.
RECURSIVE SqrtFrom(_, _, _, _)
SqrtFrom(b, i, root, rem) ==
    IF 2 * i > Len(b) THEN [root |-> root, rem |-> rem]
    ELSE IF CompareBits(Trim(rem \o <<b[2 * i - 1], b[2 * i]>>),
                        Trim(root \o <<0, 1>>)) >= 0
    THEN SqrtFrom(b, i + 1, root \o <<1>>,
                  AddSub(Trim(rem \o <<b[2 * i - 1], b[2 * i]>>),
                         Trim(root \o <<0, 1>>), -1))
    ELSE SqrtFrom(b, i + 1, root \o <<0>>,
                  Trim(rem \o <<b[2 * i - 1], b[2 * i]>>))

\* The float nearest to the root r.root * 2^e with remainder r.rem.
RoundRoot(r, e) == RoundFloat(1, Trim(r.root), e, r.rem # <<>>)

\* Python's math.sqrt(n) for an integer n >= 1.
FSqrt(n) ==
    RoundRoot(SqrtFrom(Zeros(Len(Bits(n)) % 2) \o Bits(n)
                          \o Zeros(2 * SqrtGuard), 1, <<>>, <<>>),
              -SqrtGuard)

\* The digits of the size of x in units of 2^e, e <= x.e.
Shifted(x, e) == x.m \o Zeros(x.e - e)

\* 1, 0 or -1 as the size of x is greater than, equal to or less than
\* that of y, for two floats other than zero.
CompareSize(x, y) ==
    CompareBits(Shifted(x, Min(x.e, y.e)), Shifted(y, Min(x.e, y.e)))

\* big + small for two floats other than zero, big the larger in size.
AddOrdered(big, small, e) ==
    RoundFloat(big.s,
               AddSub(Shifted(big, e), Shifted(small, e), big.s * small.s),
               e, FALSE)

\* Python's x + y for floats.
FAdd(x, y) ==
    IF x.s = 0 THEN y
    ELSE IF y.s = 0 THEN x
    ELSE IF CompareSize(x, y) = -1 THEN AddOrdered(y, x, Min(x.e, y.e))
    ELSE AddOrdered(x, y, Min(x.e, y.e))

\* 1, 0 or -1 as x > y, x == y or x < y for Python floats.
FCompare(x, y) ==
    IF x.s # y.s THEN (IF x.s > y.s THEN 1 ELSE -1)
    ELSE IF x.s = 0 THEN 0
    ELSE x.s * CompareSize(x, y)

\* Python's a / d for an integer a and d > 0, 0.0 for a = 0.
FQuotient(pair) == IF pair[1] = 0 THEN FZero ELSE FDivInt(pair[1], pair[2])

\* MCTS._ucb_score(node, mv) as Python computes it:
\* Q + ((ucb_c * P) * sqrt(N_parent)) / (1 + N_child), each operation
\* rounded to a float.
UcbScore(t, id, mv) ==
    FAdd(FQuotient(QFrac(t, id, mv)),
         FScale(FMul(FScale(FQuotient(<<PriorOf(t[id].P, mv), PriorScale>>),
                            UcbCNum, UcbCDen),
                     FSqrt(Max(1, t[id].N))),
                1, 1 + NMove(t, id, mv)))

\* The comparison of the two scores as Python floats.
UcbFloatCompare(scores, x, y) == FCompare(scores[x], scores[y])

\* Numbers below HalfWord have a product that fits an integer of the model.
HalfWord == 2^15

\* Visit counts and value sums below SmallCount keep the integers of the
\* exact comparison within an integer of the model.
SmallCount == 2^6

\* 1, 0 or -1 as a - b * sqrt(np) is positive, zero or negative, for a and
\* b * np below HalfWord in size.
SignOfDifference(a, b, np) ==
    IF a >= 0 /\ b <= 0 THEN (IF a = 0 /\ b = 0 THEN 0 ELSE 1)
    ELSE IF a <= 0 /\ b >= 0 THEN -1
    ELSE IF a * a > b * b * np THEN (IF a > 0 THEN 1 ELSE -1)
    ELSE IF a * a = b * b * np THEN 0
    ELSE (IF a > 0 THEN -1 ELSE 1)

\* The operands of the two scores are small.
SmallOperands(t, id, x, y) ==
    /\ Max(1, t[id].N) < SmallCount
    /\ \A m \in {x, y} :
          /\ NMove(t, id, m) < SmallCount
          /\ -SmallCount < QFrac(t, id, m)[1] /\ QFrac(t, id, m)[1] < SmallCount

\* The two moves have the same operands in _ucb_score.
SameOperands(t, id, x, y) ==
    /\ QFrac(t, id, x) = QFrac(t, id, y)
    /\ NMove(t, id, x) = NMove(t, id, y)
    /\ PriorOf(t[id].P, x) = PriorOf(t[id].P, y)

\* The comparison of the scores of x and y: 1, 0 or -1.  As real numbers
\* the scores differ by (a - b * sqrt(np)) / (UcbCDen * PriorScale * den).
\* While a, b * np and den are below HalfWord and the operands are small,
\* a difference other than zero is above 2^-35 and the rounding of the six
\* float operations of a score below 2^-43, so the floats compare as the
\* real numbers do; the same operands give the same float; in every other
\* case the two floats are computed and compared.
UcbDecide(t, id, x, y, a, b, np, den) ==
    IF /\ SmallOperands(t, id, x, y)
       /\ den < HalfWord
       /\ -HalfWord < a /\ a < HalfWord
       /\ -HalfWord < b * np /\ b * np < HalfWord
       /\ SignOfDifference(a, b, np) # 0
    THEN SignOfDifference(a, b, np)
    ELSE IF SameOperands(t, id, x, y) THEN 0
    ELSE UcbFloatCompare([m \in {x, y} |-> UcbScore(t, id, m)], x, y)

\* 1, 0 or -1 as MCTS._ucb_score(node, x) is greater than, equal to or less
\* than MCTS._ucb_score(node, y).
\* score = Q + ucb_c * P * sqrt(max(1, node.N)) / (1 + N_move), so with
\* X = Q(x) - Q(y) = Xn / Xd and
\* Y = E(y) - E(x) = (ucb_c / PriorScale) * Yn / Yd, E the second term
\* without the square root, score(x) - score(y) = X - Y * sqrt(max(1, node.N)).
UcbCompare(t, id, x, y) ==
    LET Xn == QFrac(t, id, x)[1] * QFrac(t, id, y)[2]
                - QFrac(t, id, y)[1] * QFrac(t, id, x)[2]
        Xd == QFrac(t, id, x)[2] * QFrac(t, id, y)[2]
        Yn == PriorOf(t[id].P, y) * (1 + NMove(t, id, x))
                - PriorOf(t[id].P, x) * (1 + NMove(t, id, y))
        Yd == (1 + NMove(t, id, x)) * (1 + NMove(t, id, y))
    IN  UcbDecide(t, id, x, y, UcbCDen * PriorScale * Xn * Yd,
                  UcbCNum * Yn * Xd, Max(1, t[id].N), Xd * Yd)

\* MCTS._ucb_score(node, x) > MCTS._ucb_score(node, y)
UcbGreater(t, id, x, y) == UcbCompare(t, id, x, y) = 1

\* x comes before y in sorted(..., reverse=True), a stable sort: its key is
\* greater (c = 1), or the keys are equal (c = 0) and x, at place i, was
\* before y, at place j.
SortsBefore(c, i, j) == c = 1 \/ (c = 0 /\ i < j)

\* sorted(legal, key=_ucb_score, reverse=True)
SortedByUcb(t, id, legal) ==
    LET n == Len(legal)
        Rank(i) == 1 + Cardinality({j \in 1..n :
                        SortsBefore(UcbCompare(t, id, legal[j], legal[i]), j, i)})
    IN  [r \in 1..n |-> legal[CHOOSE i \in 1..n : Rank(i) = r]]

\* The last move of sorted_by_ucb that is in kept.
RECURSIVE LastKept(_, _)
LastKept(sorted, kept) ==
    IF sorted = <<>> THEN kept[1]
    ELSE IF sorted[Len(sorted)] \in SeqToSet(kept) THEN sorted[Len(sorted)]
    ELSE LastKept(SubSeq(sorted, 1, Len(sorted) - 1), kept)

\* The first move of sorted_by_ucb that is in kept.
RECURSIVE FirstKept(_, _)
FirstKept(sorted, kept) ==
    IF sorted = <<>> THEN kept[1]
    ELSE IF Head(sorted) \in SeqToSet(kept) THEN Head(sorted)
    ELSE FirstKept(Tail(sorted), kept)

\* _select_child_filtered with the evaluator's error caught and answered
\* with "no move" (except Exception: return None).
SelectChildFilteredSwallow(t, id, c, threshold, topK, ans) ==
    LET legal == LegalMoves(t[id].board)
        t1 == IF t[id].P = NoPrior
              THEN [t EXCEPT ![id].P = GetPrior(legal)] ELSE t
        sorted == SortedByUcb(t1, id, legal)
        f == FilterMoves(c, t1[id].board, sorted, t1[id].P, threshold, topK, ans)
        t2 == [t1 EXCEPT ![id].board = f.board]
    IN  IF legal = <<>>
        THEN [mv |-> NoMove, tree |-> t, cache |-> c, raised |-> FALSE,
              reqs |-> <<>>, sorted |-> <<>>, kept |-> <<>>]
        ELSE [mv |-> IF f.raised \/ f.kept = <<>> THEN NoMove
                     ELSE FirstKept(sorted, f.kept),
              tree |-> t2, cache |-> f.cache, raised |-> FALSE,
              reqs |-> f.reqs, sorted |-> sorted, kept |-> f.kept]

\* MCTS._select_child_filtered on node id of tree t, with cache c.
SelectChildFiltered(t, id, c, threshold, topK, ans) ==
    LET legal == LegalMoves(t[id].board)
        t1 == IF t[id].P = NoPrior
              THEN [t EXCEPT ![id].P = GetPrior(legal)] ELSE t
        sorted == SortedByUcb(t1, id, legal)
        f == FilterMoves(c, t1[id].board, sorted, t1[id].P, threshold, topK, ans)
        t2 == [t1 EXCEPT ![id].board = f.board]
    IN  IF legal = <<>>
        THEN [mv |-> NoMove, tree |-> t, cache |-> c, raised |-> FALSE,
              reqs |-> <<>>, sorted |-> <<>>, kept |-> <<>>]
        ELSE [mv |-> IF f.raised \/ f.kept = <<>> THEN NoMove
                     ELSE FirstKept(sorted, f.kept),
              tree |-> t2, cache |-> f.cache, raised |-> f.raised,
              reqs |-> f.reqs, sorted |-> sorted, kept |-> f.kept]

\* MCTS._rollout_value
RolloutValue(board) ==
    LET p == Cur(board)
    IN  IF GameOver(p)
        THEN IF GameResult(p) = "1-0"
             THEN (IF GameTurn(p) = "WHITE" THEN 1 ELSE -1)
             ELSE IF GameResult(p) = "0-1"
             THEN (IF GameTurn(p) = "BLACK" THEN 1 ELSE -1)
             ELSE 0
        ELSE 0

\* _backpropagate stopping below the root ("while node.parent is not None").
RECURSIVE BackpropagateBelowRoot(_, _, _)
BackpropagateBelowRoot(t, id, v) ==
    IF id = NoNode \/ t[id].parent = NoNode THEN t
    ELSE BackpropagateBelowRoot([t EXCEPT ![id].N = @ + 1, ![id].W = @ + v],
                                t[id].parent, -v)

\* _backpropagate without the perspective flip "v = -v".
RECURSIVE BackpropagateNoFlip(_, _, _)
BackpropagateNoFlip(t, id, v) ==
    IF id = NoNode THEN t
    ELSE BackpropagateNoFlip([t EXCEPT ![id].N = @ + 1, ![id].W = @ + v],
                             t[id].parent, v)

\* _backpropagate with "v = -v" before "node.W += v".
RECURSIVE BackpropagateFlipFirst(_, _, _)
BackpropagateFlipFirst(t, id, v) ==
    IF id = NoNode THEN t
    ELSE BackpropagateFlipFirst([t EXCEPT ![id].N = @ + 1, ![id].W = @ - v],
                                t[id].parent, -v)

\* _backpropagate without "node.N += 1".
RECURSIVE BackpropagateNoCount(_, _, _)
BackpropagateNoCount(t, id, v) ==
    IF id = NoNode THEN t
    ELSE BackpropagateNoCount([t EXCEPT ![id].W = @ + v], t[id].parent, -v)

\* MCTS._backpropagate
RECURSIVE Backpropagate(_, _, _)
Backpropagate(t, id, v) ==
    IF id = NoNode THEN t
    ELSE Backpropagate([t EXCEPT ![id].N = @ + 1, ![id].W = @ + v],
                       t[id].parent, -v)

\* The selection loop testing "no legal moves" instead of is_game_over().
NodeHasNoMoves(t, id) == LegalMoves(t[id].board) = <<>>

\* node.board.is_game_over(), the first test of the selection loop.
NodeGameOver(t, id) == GameOver(Cur(t[id].board))

\* max() keeping the last of the maximal children (>= for >).
RECURSIVE MaxChildLast(_, _, _)
MaxChildLast(t, kids, best) ==
    IF kids = <<>> THEN best
    ELSE MaxChildLast(t, Tail(kids),
                      IF t[Head(kids)[2]].N >= t[best[2]].N THEN Head(kids) ELSE best)

\* MCTS.best_move: max(root.children.items(), key=lambda kv: kv[1].N)[0],
\* the first of the children with the largest N.
RECURSIVE MaxChild(_, _, _)
MaxChild(t, kids, best) ==
    IF kids = <<>> THEN best
    ELSE MaxChild(t, Tail(kids),
                  IF t[Head(kids)[2]].N > t[best[2]].N THEN Head(kids) ELSE best)

BestMove(t, root) ==
    IF t[root].children = <<>> THEN NoMove
    ELSE MaxChild(t, Tail(t[root].children), Head(t[root].children))[1]

\* ------------------------------------------------------------------ state

VARIABLES
    threshold,  \* StockfishFilter.threshold_cp
    topK,       \* StockfishFilter.top_k
    cache,      \* StockfishFilter.cache: FEN -> score
    tree,       \* the MCTSNode objects; tree[1] is the root
    pc,         \* where run_simulations is: idle, select, rollout, done, raised
    cur,        \* run_simulations' local variable node
    nSim,       \* run_simulations' argument n_sim
    simsDone,   \* completed iterations of run_simulations' for loop
    path,       \* history: the nodes the running simulation has selected
    simLog,     \* history: per completed simulation its path and leaf value
    prevTree,   \* history: the tree just before the last backpropagation
    raisedAt,   \* history: the FEN whose evaluator request failed in the search
    lastSel,    \* history: the last _select_child_filtered call and its outcome
    reqCount,   \* history: requests run_simulations sent to the evaluator
    last,       \* history: the last direct call of the filter and its outcome
    returned,   \* history: FEN -> score eval_board last returned, since a clear
    twin,       \* history: one filter_moves call and the same call reconfigured
    uOp,        \* UCIEngine: the method that is running (none: not constructed)
    uRd,        \* UCIEngine._read_until: "-", check (loop top), blocked (readline)
    uToken,     \* UCIEngine._read_until: the awaited token
    elapsed,    \* time.time() - start of the running _read_until, in seconds
    uLines,     \* UCIEngine._read_until: lines
    uPos,       \* the FEN of the client's last position_fen
    stdin,      \* the process's stdin pipe: commands not yet consumed
    stdout,     \* the process's stdout pipe: lines not yet read
    proc,       \* the engine process: alive, its position, its pending output
    goLog,      \* history: the outcome of every go_and_get call, in order
    hs,         \* history: writes and reads up to the constructor's return
    quitLog,    \* history: the outcome of every quit call, in order
    newGames    \* history: the number of ucinewgame calls

mctsVars == <<tree, pc, cur, nSim, simsDone, path, simLog, prevTree, raisedAt,
             lastSel>>
filterVars == <<threshold, topK, cache, reqCount>>
callVars == <<last, returned, twin>>
uciVars == <<uOp, uRd, uToken, elapsed, uLines, uPos, stdin, stdout, proc, goLog,
            hs, quitLog, newGames>>
vars == <<threshold, topK, cache, tree, pc, cur, nSim, simsDone, path,
          simLog, prevTree, raisedAt, lastSel, reqCount, last, returned, twin,
          uOp, uRd, uToken, elapsed, uLines, uPos, stdin, stdout, proc, goLog,
          hs, quitLog, newGames>>

Root == 1
\* The positions a search is started from.
RootPositions == {1, 3, 4, 5, 6}

\* The record of a direct call: what was called, the candidates given, the
\* evaluations it completed (move, FEN, score), the FENs it sent to the
\* evaluator, the scores eval_board had returned before for the FENs it
\* looked at, the result, the board object afterwards.
NoCall ==
    [kind |-> "none", cands |-> <<>>, evals |-> <<>>, reqs |-> <<>>,
     seen |-> NoCache, kept |-> <<>>, raised |-> FALSE, board |-> <<>>]

\* The record of a filter_moves call (a) and of the same call, from the
\* same cache and with the same evaluator answers, by a filter configured
\* with another threshold or another top_k (b).
NoTwin ==
    [kind |-> "none", cands |-> <<>>, ta |-> 0, tb |-> 0, ka |-> 0, kb |-> 0,
     a |-> [kept |-> <<>>, scored |-> <<>>, reqs |-> <<>>, raised |-> FALSE],
     b |-> [kept |-> <<>>, scored |-> <<>>, reqs |-> <<>>, raised |-> FALSE]]

\* StockfishFilter(engine, threshold_cp, top_k, ...): an empty cache.
InitFilter ==
    /\ threshold \in Thresholds
    /\ topK \in TopKs
    /\ cache = NoCache
    /\ reqCount = 0
    /\ last = NoCall
    /\ returned = NoCache
    /\ twin = NoTwin

\* The record of a _select_child_filtered call: the node, its ranking by
\* UCB score, what filter_moves returned, the move returned, the child the
\* node had for that move before the call (NoNode: none), and the number
\* of simulations completed before it.
NoSel ==
    [node |-> NoNode, sorted |-> <<>>, kept |-> <<>>, mv |-> NoMove,
     had |-> NoNode, at |-> 0]

\* root = MCTSNode(board=board): N = 0, W = 0, no parent, no children.
InitMCTS ==
    /\ \E p \in RootPositions : tree = <<NewNode(<<p>>, NoNode, NoMove)>>
    /\ pc = "idle"
    /\ cur = NoNode
    /\ nSim = 0
    /\ simsDone = 0
    /\ path = <<>>
    /\ simLog = <<>>
    /\ prevTree = tree
    /\ raisedAt = NoFen
    /\ lastSel = NoSel

\* No UCIEngine object yet: UCIEngine(path) has not been called.
InitUCI ==
    /\ uOp = "none" /\ uRd = "-" /\ uToken = "-"
    /\ elapsed = 0 /\ uLines = <<>> /\ uPos = NoFen
    /\ stdin = <<>> /\ stdout = <<>>
    /\ proc = [alive |-> FALSE, pos |-> NoFen, pending |-> <<>>]
    /\ goLog = <<>>
    /\ hs = <<>>
    /\ quitLog = <<>>
    /\ newGames = 0

Init == InitFilter /\ InitMCTS /\ InitUCI

\* The FENs eval_board may have to ask the evaluator about when the moves of
\* board are filtered: the successors not yet cached.
Uncached(board) ==
    {Fen(Push(board, m)) : m \in SeqToSet(LegalMoves(board))} \ DOMAIN cache

\* mcts.run_simulations(root, n_sim=n): entry, up to the first "node = root".
RunStart(n) ==
    /\ pc = "idle"
    /\ nSim' = n
    /\ pc' = IF n = 0 THEN "done" ELSE "select"
    /\ cur' = IF n = 0 THEN NoNode ELSE Root
    /\ path' = IF n = 0 THEN <<>> ELSE <<Root>>
    /\ UNCHANGED <<tree, simsDone, simLog, prevTree, raisedAt, lastSel, filterVars,
                   callVars, uciVars>>

\* One iteration of the selection loop "while True" of run_simulations.
SelectStep ==
    /\ pc = "select"
    /\ IF NodeGameOver(tree, cur)
       THEN /\ tree' = [tree EXCEPT ![cur].terminal = TRUE]
            /\ pc' = "rollout"
            /\ UNCHANGED <<cur, path, cache, reqCount, raisedAt, lastSel>>
       ELSE \E ans \in [Uncached(tree[cur].board) -> Answers] :
            \E r \in {SelectChildFiltered(tree, cur, cache, threshold, topK, ans)} :
            LET new == Len(tree) + 1
                ch == ChildOf(r.tree[cur], r.mv)
                failed == {i \in 1..Len(r.reqs) : ~ans[r.reqs[i]].ok}
            IN  /\ cache' = r.cache
                /\ reqCount' = reqCount + Len(r.reqs)
                /\ raisedAt' = IF failed = {} THEN raisedAt
                               ELSE r.reqs[CHOOSE i \in failed : TRUE]
                /\ lastSel' = [node |-> cur, sorted |-> r.sorted, kept |-> r.kept,
                               mv |-> r.mv, had |-> ChildOf(tree[cur], r.mv),
                               at |-> simsDone]
                /\ IF r.raised
                   THEN /\ tree' = r.tree
                        /\ pc' = "raised"
                        /\ UNCHANGED <<cur, path>>
                   ELSE IF r.mv = NoMove
                   THEN /\ tree' = r.tree
                        /\ pc' = "rollout"
                        /\ UNCHANGED <<cur, path>>
                   ELSE IF ch = NoNode
                   THEN /\ tree' = Append(
                               [r.tree EXCEPT ![cur].children =
                                                  Append(@, <<r.mv, new>>)],
                               NewNode(Push(r.tree[cur].board, r.mv), cur, r.mv))
                        /\ cur' = new
                        /\ path' = Append(path, new)
                        /\ pc' = "rollout"
                   ELSE /\ tree' = r.tree
                        /\ cur' = ch
                        /\ path' = Append(path, ch)
                        /\ pc' = "select"
    /\ UNCHANGED <<threshold, topK, nSim, simsDone, simLog, prevTree, callVars,
                   uciVars>>

\* The rest of the iteration: _rollout_value, _backpropagate, and the next
\* "node = root" or the return of run_simulations.
Evaluate ==
    /\ pc = "rollout"
    /\ LET value == RolloutValue(tree[cur].board)
       IN  /\ prevTree' = tree
           /\ tree' = Backpropagate(tree, cur, value)
           /\ simLog' = Append(simLog, [path |-> path, value |-> value])
    /\ simsDone' = simsDone + 1
    /\ IF simsDone + 1 < nSim
       THEN pc' = "select" /\ cur' = Root /\ path' = <<Root>>
       ELSE pc' = "done" /\ UNCHANGED <<cur, path>>
    /\ UNCHANGED <<nSim, raisedAt, lastSel, filterVars, callVars, uciVars>>

NextMCTS ==
    \/ \E n \in 0..MaxSims : RunStart(n)
    \/ SelectStep
    \/ Evaluate

\* One search: a filter, a fresh root, one call of run_simulations.
SpecMCTS == Init /\ [][NextMCTS]_vars

\* ------------------------------------------- direct calls of the filter

\* The board objects eval_board is called with directly (run_hybrid_demo):
\* <<2>> and <<1, 2>> are the same position reached with different history.
EvalBoards == {<<2>>, <<1, 2>>, <<1, 3>>}
\* The board filter_moves is called with directly (test_filter).
FilterBoards == {<<1>>}
\* Candidate lists: none, the legal moves in two orders, a single move.
CandLists == {<<>>, <<"a", "b", "c">>, <<"c", "b", "a">>, <<"b">>}
\* Priors: none, uniform over the legal moves, and one that ranks c first
\* and knows nothing of b.
PriorChoices ==
    {NoPrior, GetPrior(<<"a", "b", "c">>), [m \in {"a", "c"} |-> IF m = "c" THEN 3 ELSE 1]}

\* The restriction of map m to the keys in ks.
Restrict(m, ks) == [k \in DOMAIN m \cap ks |-> m[k]]
RECURSIVE PutAll(_, _)
PutAll(m, evals) ==
    IF evals = <<>> THEN m
    ELSE PutAll(CachePut(m, Head(evals)[2], Head(evals)[3]), Tail(evals))

\* A search with no call of run_simulations: the root stays as constructed.
InitCalls ==
    /\ InitFilter
    /\ InitUCI
    /\ tree = <<NewNode(<<1>>, NoNode, NoMove)>>
    /\ pc = "idle" /\ cur = NoNode /\ nSim = 0 /\ simsDone = 0
    /\ path = <<>> /\ simLog = <<>> /\ prevTree = tree
    /\ raisedAt = NoFen /\ lastSel = NoSel

\* sf_filter.eval_board(board), called by the demo itself.
EvalCall(board) ==
    \E ans \in [{Fen(board)} \ DOMAIN cache -> Answers] :
    \E r \in {EvalBoard(cache, board, ans)} :
        /\ cache' = r.cache
        /\ last' = [kind |-> "eval", cands |-> <<>>,
                    evals |-> IF r.raised THEN <<>>
                              ELSE <<<<NoMove, Fen(board), r.cp>>>>,
                    reqs |-> r.reqs,
                    seen |-> Restrict(returned, {Fen(board)}),
                    kept |-> <<>>, raised |-> r.raised, board |-> board]
        /\ returned' = IF r.raised THEN returned
                       ELSE CachePut(returned, Fen(board), r.cp)
        /\ UNCHANGED <<threshold, topK, reqCount, twin, mctsVars, uciVars>>

\* flt.filter_moves(board, moves, priors), called directly.
FilterCall(board, cands, priors) ==
    LET todo == TakeFirst(IF DOMAIN priors # {} THEN SortByPrior(cands, priors)
                          ELSE cands, topK)
        asked == {Fen(Push(board, todo[i])) : i \in 1..Len(todo)}
    IN  \E ans \in [asked \ DOMAIN cache -> Answers] :
        \E r \in {FilterMoves(cache, board, cands, priors, threshold, topK, ans)} :
        LET evals == [i \in 1..Len(r.scored) |->
                         <<r.scored[i][1], Fen(Push(board, r.scored[i][1])),
                           r.scored[i][2]>>]
            looked == {evals[i][2] : i \in 1..Len(evals)} \cup SeqToSet(r.reqs)
        IN  /\ cache' = r.cache
            /\ last' = [kind |-> "filter", cands |-> cands, evals |-> evals,
                        reqs |-> r.reqs, seen |-> Restrict(returned, looked),
                        kept |-> r.kept, raised |-> r.raised, board |-> r.board]
            /\ returned' = PutAll(returned, evals)
            /\ UNCHANGED <<threshold, topK, reqCount, twin, mctsVars, uciVars>>

\* sf_filter.cache.clear()
CacheClear ==
    /\ cache' = NoCache
    /\ returned' = NoCache
    /\ last' = [NoCall EXCEPT !.kind = "clear"]
    /\ UNCHANGED <<threshold, topK, reqCount, twin, mctsVars, uciVars>>

NextCalls ==
    \/ \E b \in EvalBoards : EvalCall(b)
    \/ \E b \in FilterBoards, cs \in CandLists, pr \in PriorChoices :
          FilterCall(b, cs, pr)
    \/ CacheClear

\* A filter used directly: any sequence of eval_board, filter_moves, clear.
SpecCalls == InitCalls /\ [][NextCalls]_vars

\* No run_simulations is under way: its caller has the control.
CallerRuns == pc \notin {"select", "rollout"}

\* eval_board and filter_moves called before or after a run_simulations,
\* on the filter the search uses.
EvalAround(board) == CallerRuns /\ EvalCall(board)
FilterAround(board, cands, priors) == CallerRuns /\ FilterCall(board, cands, priors)

\* The candidate lists of these calls: the legal moves in another order
\* than the search's, and a single move.
MixedCands == {<<"c", "b", "a">>, <<"b">>}

NextMixed ==
    \/ \E n \in 0..MaxSims : RunStart(n)
    \/ SelectStep
    \/ Evaluate
    \/ \E b \in EvalBoards : EvalAround(b)
    \/ \E b \in FilterBoards, cs \in MixedCands : FilterAround(b, cs, NoPrior)

\* The demo's setting: the filter with the constructor's default threshold,
\* a search from the start position.
InitMixed ==
    /\ InitCalls
    /\ threshold = -100
    /\ topK = MaxTopK

\* One filter used by direct calls and by one search, and never cleared.
SpecMixed == InitMixed /\ [][NextMixed]_vars

\* --------------------------------- one call under two configurations

\* Thresholds and top_k values of the second filter.
TwinThresholds == Thresholds \cup {-200, -150}
TwinTopKs == (-2)..(MaxTopK + 1)
\* Candidate lists of three, two and one legal moves of position 1.
TwinCands == {<<"a", "b", "c">>, <<"b", "a">>, <<"c">>}
\* Cache contents earlier calls have left: nothing, the score of one
\* successor, the scores of the two others.
TwinCaches ==
    {NoCache,
     [f \in {<<"fen", 2>>} |-> -100],
     [f \in {<<"fen", 3>>, <<"fen", 4>>} |-> IF f[2] = 3 THEN -200 ELSE -100]}

\* What is recorded of one filter_moves call.
TwinOf(r) ==
    [kept |-> r.kept, scored |-> r.scored, reqs |-> r.reqs, raised |-> r.raised]

\* A filter whose cache already holds some scores.
InitTwin ==
    /\ threshold \in Thresholds
    /\ topK \in TopKs
    /\ cache \in TwinCaches
    /\ reqCount = 0 /\ last = NoCall /\ returned = cache /\ twin = NoTwin
    /\ InitUCI
    /\ tree = <<NewNode(<<1>>, NoNode, NoMove)>>
    /\ pc = "idle" /\ cur = NoNode /\ nSim = 0 /\ simsDone = 0
    /\ path = <<>> /\ simLog = <<>> /\ prevTree = tree
    /\ raisedAt = NoFen /\ lastSel = NoSel

\* filter_moves(board, cands, priors) by this filter and by one with
\* threshold_cp = t2 and top_k = k2, the evaluator answering alike.
FilterTwin(kind, board, cands, priors, t2, k2) ==
    /\ twin.kind = "none"
    /\ \E ans \in [{Fen(Push(board, cands[i])) : i \in 1..Len(cands)}
                        \ DOMAIN cache -> Answers] :
       \E ra \in {FilterMoves(cache, board, cands, priors, threshold, topK, ans)},
          rb \in {FilterMoves(cache, board, cands, priors, t2, k2, ans)} :
           /\ cache' = ra.cache
           /\ twin' = [kind |-> kind, cands |-> cands,
                       ta |-> threshold, tb |-> t2, ka |-> topK, kb |-> k2,
                       a |-> TwinOf(ra), b |-> TwinOf(rb)]
    /\ UNCHANGED <<threshold, topK, reqCount, last, returned, mctsVars, uciVars>>

TwinThreshold(cands, priors, t2) ==
    FilterTwin("threshold", <<1>>, cands, priors, t2, topK)

TwinTopK(cands, priors, k2) ==
    FilterTwin("topk", <<1>>, cands, priors, threshold, k2)

NextTwin ==
    \/ \E cs \in TwinCands, pr \in PriorChoices, t2 \in TwinThresholds :
          TwinThreshold(cs, pr, t2)
    \/ \E cs \in TwinCands, pr \in PriorChoices, k2 \in TwinTopKs :
          TwinTopK(cs, pr, k2)

\* One filter_moves call, compared with its reconfigured twin.
SpecTwin == InitTwin /\ [][NextTwin]_vars

\* ------------------------------------------- UCIEngine and its process

\* _read_until's default timeout, in seconds.
ReadTimeout == 10
\* The saturated score of a mate annotation.
MateCp == 100000
\* The FENs position_fen is called with.
UciFens == {<<"fen", 2>>, <<"fen", 3>>}
otherVars == <<filterVars, callVars, mctsVars>>

\* A line of the engine's output: its kind (id, uciok, readyok, bestmove;
\* info_cp and info_mate, "info ... score cp n" and "info ... score mate n";
\* info_other, an info line without a score; text_cp, a line that holds
\* "score cp n" but does not start with "info "; id_uciok, info_readyok
\* and info_bestmove, an id line and info lines without a score whose text
\* holds the word uciok, readyok or bestmove, as "id name uciok-engine" and
\* "info string bestmove soon"), the number of a score annotation, and
\* (history) the position whose search produced it.
Line(kind, val, for) == [kind |-> kind, val |-> val, for |-> for]
\* The progress lines one search may print before its bestmove line: none,
\* one score, or a mate score and then a centipawn score.
InfoSeqs(for) ==
    {<<>>, <<Line("info_cp", 30, for)>>,
     <<Line("info_mate", -2, for), Line("info_cp", -40, for)>>}

\* A command line written to the engine: its first word and, for position,
\* the FEN.
Cmd(name, fen) == <<name, fen>>

\* _read_until returning at the first line, whatever it holds.
ContainsAnything(line, token) == TRUE

\* The tokens that occur in the text of a line.
TokensIn(line) ==
    CASE line.kind \in {"uciok", "id_uciok"} -> {"uciok"}
      [] line.kind \in {"readyok", "info_readyok"} -> {"readyok"}
      [] line.kind \in {"bestmove", "info_bestmove"} -> {"bestmove"}
      [] OTHER -> {}

\* "token in line": a substring test on the whole line.
Contains(line, token) == token \in TokensIn(line)

\* line.startswith("info ")
StartsWithInfo(line) ==
    line.kind \in {"info_cp", "info_mate", "info_other", "info_readyok",
                   "info_bestmove"}
\* score_re.search(line): the kind matched, or none.
ScoreKind(line) ==
    IF line.kind \in {"info_cp", "text_cp"} THEN "cp"
    ELSE IF line.kind = "info_mate" THEN "mate"
    ELSE "none"

\* The loop of go_and_get with "mate_score = None" left out.
RECURSIVE ParseLinesKeepMate(_, _)
ParseLinesKeepMate(lines, acc) ==
    IF lines = <<>> THEN acc
    ELSE LET l == Head(lines)
             a1 == IF StartsWithInfo(l) /\ ScoreKind(l) = "cp"
                   THEN [acc EXCEPT !.cp = l.val]
                   ELSE IF StartsWithInfo(l) /\ ScoreKind(l) = "mate"
                   THEN [acc EXCEPT !.mate = l.val, !.mateSet = TRUE,
                                    !.cp = IF l.val > 0 THEN MateCp ELSE -MateCp]
                   ELSE acc
             a2 == IF l.kind = "bestmove" THEN [a1 EXCEPT !.src = l.for] ELSE a1
         IN  ParseLinesKeepMate(Tail(lines), a2)

\* The loop of go_and_get over the lines read: the last score annotation
\* and the bestmove line win.
RECURSIVE ParseLines(_, _)
ParseLines(lines, acc) ==
    IF lines = <<>> THEN acc
    ELSE LET l == Head(lines)
             a1 == IF StartsWithInfo(l) /\ ScoreKind(l) = "cp"
                   THEN [acc EXCEPT !.cp = l.val, !.mateSet = FALSE, !.mate = 0]
                   ELSE IF StartsWithInfo(l) /\ ScoreKind(l) = "mate"
                   THEN [acc EXCEPT !.mate = l.val, !.mateSet = TRUE,
                                    !.cp = IF l.val > 0 THEN MateCp ELSE -MateCp]
                   ELSE acc
             a2 == IF l.kind = "bestmove" THEN [a1 EXCEPT !.src = l.for] ELSE a1
         IN  ParseLines(Tail(lines), a2)

\* go_and_get's return value (cp_score, mate_score, bestmove); src is the
\* position the bestmove line came from, req the position asked about and
\* lines what _read_until returned.
GoResult(lines, req) ==
    ParseLines(lines, [status |-> "ok", cp |-> 0, mateSet |-> FALSE, mate |-> 0,
                       src |-> NoFen, req |-> req, lines |-> lines])
GoFailure(status, req) ==
    [status |-> status, cp |-> 0, mateSet |-> FALSE, mate |-> 0,
     src |-> NoFen, req |-> req, lines |-> <<>>]

\* The events of the startup: a command written, a line read, the return
\* of UCIEngine(path).
Wrote(name) == <<"w", name>>
Read(line) == <<"r", line.kind>>
Constructed == <<"ret", "init">>
\* hs after the write of a command: writes are recorded until the
\* constructor has returned.
NoteWrite(h, name) ==
    IF Constructed \in SeqToSet(h) THEN h ELSE Append(h, Wrote(name))

\* The start of a _read_until(token): start = time.time(), lines = [].
StartRead(op, token) ==
    /\ uOp' = op
    /\ uToken' = token
    /\ uRd' = "check"
    /\ elapsed' = 0
    /\ uLines' = <<>>

\* UCIEngine(path), up to the first write: Popen starts the process, which
\* runs from here on.
Construct ==
    /\ uOp = "none"
    /\ proc' = [alive |-> TRUE, pos |-> NoFen, pending |-> <<>>]
    /\ uOp' = "init_write"
    /\ UNCHANGED <<uRd, uToken, elapsed, uLines, uPos, stdin, stdout, goLog, hs,
                   quitLog, newGames>>
    /\ UNCHANGED otherVars

\* UCIEngine(path), "self._write("uci")" and the entry of
\* _read_until("uciok"). The write to a process that is gone raises
\* (broken pipe) and the constructor ends with that error.
InitWrite ==
    /\ uOp = "init_write"
    /\ IF proc.alive
       THEN /\ stdin' = Append(stdin, Cmd("uci", NoFen))
            /\ StartRead("init_uciok", "uciok")
            /\ hs' = NoteWrite(hs, "uci")
       ELSE /\ uOp' = "failed"
            /\ UNCHANGED <<uRd, uToken, elapsed, uLines, stdin, hs>>
    /\ UNCHANGED <<uPos, stdout, proc, goLog, quitLog, newGames>>
    /\ UNCHANGED otherVars

\* _read_until, loop top: "if time.time() - start > timeout: raise". The
\* TimeoutError ends the running method: __init__ leaves no object, and
\* go_and_get and ucinewgame raise to their caller.
ReadCheck ==
    /\ uRd = "check"
    /\ IF elapsed > ReadTimeout
       THEN /\ uRd' = "-"
            /\ uToken' = "-"
            /\ uLines' = <<>>
            /\ uOp' = IF uOp \in {"go", "ucinewgame"} THEN "idle" ELSE "failed"
            /\ goLog' = IF uOp = "go"
                        THEN Append(goLog, GoFailure("timeout", uPos))
                        ELSE goLog
       ELSE /\ uRd' = "blocked"
            /\ UNCHANGED <<uOp, uToken, uLines, goLog>>
    /\ UNCHANGED <<elapsed, uPos, stdin, stdout, proc, hs, quitLog, newGames>>
    /\ UNCHANGED otherVars

\* _read_until, "line = self.proc.stdout.readline()" and the rest of the
\* loop body. readline returns a line when there is one, "" at end of file
\* (the process is gone), and otherwise does not return. In __init__ the
\* return of _read_until("uciok") is followed by the write of isready,
\* which raises when the process is gone.
ReadLineBody ==
    /\ uRd = "blocked"
    /\ IF stdout # <<>>
       THEN /\ stdout' = Tail(stdout)
            /\ IF Contains(Head(stdout), uToken)
               THEN IF uOp = "init_uciok" /\ proc.alive
                    THEN /\ stdin' = Append(stdin, Cmd("isready", NoFen))
                         /\ StartRead("init_readyok", "readyok")
                         /\ hs' = NoteWrite(Append(hs, Read(Head(stdout))), "isready")
                         /\ UNCHANGED goLog
                    ELSE IF uOp = "init_uciok"
                    THEN /\ uRd' = "-"
                         /\ uToken' = "-"
                         /\ uLines' = <<>>
                         /\ uOp' = "failed"
                         /\ hs' = Append(hs, Read(Head(stdout)))
                         /\ UNCHANGED <<stdin, elapsed, goLog>>
                    ELSE /\ uRd' = "-"
                         /\ uToken' = "-"
                         /\ uLines' = <<>>
                         /\ uOp' = "idle"
                         /\ goLog' = IF uOp = "go"
                                     THEN Append(goLog,
                                            GoResult(Append(uLines, Head(stdout)), uPos))
                                     ELSE goLog
                         /\ hs' = IF uOp \in {"go", "ucinewgame"} THEN hs
                                  ELSE Append(Append(hs, Read(Head(stdout))),
                                              Constructed)
                         /\ UNCHANGED <<stdin, elapsed>>
               ELSE /\ uLines' = Append(uLines, Head(stdout))
                    /\ uRd' = "check"
                    /\ hs' = IF uOp \in {"go", "ucinewgame"} THEN hs
                             ELSE Append(hs, Read(Head(stdout)))
                    /\ UNCHANGED <<uOp, uToken, elapsed, stdin, goLog>>
       ELSE /\ ~proc.alive
            /\ uRd' = "check"
            /\ UNCHANGED <<uOp, uToken, elapsed, uLines, stdin, stdout, goLog, hs, quitLog, newGames>>
    /\ UNCHANGED <<uPos, proc, quitLog, newGames>>

\* A readline of a client used on its own: no filter is touched.
ReadLine == ReadLineBody /\ UNCHANGED otherVars

\* setoption(name, value): one write, nothing read.
Setoption ==
    /\ uOp = "idle"
    /\ proc.alive
    /\ Len(stdin) < MaxPipe
    /\ stdin' = Append(stdin, Cmd("setoption", NoFen))
    /\ hs' = NoteWrite(hs, "setoption")
    /\ UNCHANGED <<uOp, uRd, uToken, elapsed, uLines, uPos, stdout, proc, goLog,
                   quitLog, newGames>>
    /\ UNCHANGED otherVars

\* ucinewgame(), its first write: "ucinewgame".
Ucinewgame ==
    /\ uOp = "idle"
    /\ proc.alive
    /\ newGames < MaxNewGame
    /\ Len(stdin) < MaxPipe
    /\ stdin' = Append(stdin, Cmd("ucinewgame", NoFen))
    /\ uOp' = "newgame_write"
    /\ newGames' = newGames + 1
    /\ UNCHANGED <<uRd, uToken, elapsed, uLines, uPos, stdout, proc, goLog, hs,
                   quitLog>>
    /\ UNCHANGED otherVars

\* ucinewgame(), "self._write("isready")" and the entry of
\* _read_until("readyok"); the write to a process that is gone raises and
\* ucinewgame ends with that error.
UcinewgameReady ==
    /\ uOp = "newgame_write"
    /\ IF proc.alive
       THEN /\ stdin' = Append(stdin, Cmd("isready", NoFen))
            /\ StartRead("ucinewgame", "readyok")
       ELSE /\ uOp' = "idle"
            /\ UNCHANGED <<uRd, uToken, elapsed, uLines, stdin>>
    /\ UNCHANGED <<uPos, stdout, proc, goLog, hs, quitLog, newGames>>
    /\ UNCHANGED otherVars

\* position_fen(fen): one write, nothing read.
PositionFen(fen) ==
    /\ uOp = "idle"
    /\ proc.alive
    /\ Len(stdin) < MaxPipe
    /\ stdin' = Append(stdin, Cmd("position", fen))
    /\ uPos' = fen
    /\ hs' = NoteWrite(hs, "position")
    /\ UNCHANGED <<uOp, uRd, uToken, elapsed, uLines, stdout, proc, goLog,
                   quitLog, newGames>>
    /\ UNCHANGED otherVars

\* go_and_get(depth=...): "go depth" written, _read_until("bestmove")
\* entered. The write to a process that is gone raises (broken pipe).
GoAndGet ==
    /\ uOp = "idle"
    /\ Len(goLog) < MaxGo
    /\ Len(stdin) < MaxPipe
    /\ IF proc.alive
       THEN /\ stdin' = Append(stdin, Cmd("go", NoFen))
            /\ StartRead("go", "bestmove")
            /\ hs' = NoteWrite(hs, "go")
            /\ UNCHANGED goLog
       ELSE /\ goLog' = Append(goLog, GoFailure("error", uPos))
            /\ UNCHANGED <<uOp, uRd, uToken, elapsed, uLines, stdin, hs>>
    /\ UNCHANGED <<uPos, stdout, proc, quitLog, newGames>>
    /\ UNCHANGED otherVars

\* quit() on process p: "quit" is written, or the error of the write to a
\* process that is gone is swallowed; then proc.terminate() sends SIGTERM
\* (nothing, to a process that is gone) and returns without waiting.
QuitOutcome(p) ==
    [raised |-> FALSE, wrote |-> p.alive]

\* sf.quit(). The call does not wait for the process: a live process may
\* have ended, on the command or on the signal, by the time the call
\* returns (stops), or be running still; it then ends at some later step of
\* its own (ProcDie), or, when it traps the signal and does not act on
\* "quit", not at all.
Quit ==
    /\ uOp = "idle"
    /\ Len(quitLog) < MaxQuit
    /\ Len(stdin) < MaxPipe
    /\ \E r \in {QuitOutcome(proc)} :
       \E stops \in {FALSE, proc.alive} :
          /\ stdin' = IF stops THEN <<>>
                      ELSE IF r.wrote THEN Append(stdin, Cmd("quit", NoFen))
                      ELSE stdin
          /\ proc' = IF stops
                     THEN [proc EXCEPT !.alive = FALSE, !.pending = <<>>]
                     ELSE proc
          /\ quitLog' = Append(quitLog,
                 [raised |-> r.raised, before |-> proc.alive,
                  after |-> proc.alive /\ ~stops,
                  same |-> ~r.wrote,
                  timedOut |-> \E i \in 1..Len(goLog) :
                                  goLog[i].status = "timeout"])
    /\ UNCHANGED <<uOp, uRd, uToken, elapsed, uLines, uPos, stdout, goLog,
                   hs, newGames>>
    /\ UNCHANGED otherVars

\* time.time() advancing while a _read_until runs.
Tick ==
    /\ uRd # "-"
    /\ elapsed <= ReadTimeout
    /\ elapsed' = elapsed + TickSeconds
    /\ UNCHANGED <<uOp, uRd, uToken, uLines, uPos, stdin, stdout, proc, goLog, hs, quitLog, newGames>>
    /\ UNCHANGED otherVars

\* The engine reads its next command once it has printed the answer to the
\* one before: an id line (one that holds the word uciok, or not) and uciok
\* for uci, readyok for isready, and for go the progress lines of a search
\* of its current position and then bestmove. It prints nothing for
\* setoption and ucinewgame, nor for a quit it does not act on.
ProcConsume ==
    /\ proc.alive
    /\ stdin # <<>>
    /\ proc.pending = <<>>
    /\ stdin' = Tail(stdin)
    /\ LET cmd == Head(stdin)[1]
       IN  IF cmd = "uci"
           THEN \E id \in {"id", "id_uciok"} :
                    proc' = [proc EXCEPT !.pending =
                                <<Line(id, 0, NoFen), Line("uciok", 0, NoFen)>>]
           ELSE IF cmd = "isready"
           THEN \E answer \in {<<Line("readyok", 0, NoFen)>>,
                                <<Line("info_readyok", 0, NoFen),
                                  Line("readyok", 0, NoFen)>>} :
                    proc' = [proc EXCEPT !.pending = answer]
           ELSE IF cmd = "go"
           THEN \E infos \in InfoSeqs(proc.pos) :
                    proc' = [proc EXCEPT !.pending =
                                Append(infos, Line("bestmove", 0, proc.pos))]
           ELSE IF cmd \in {"setoption", "ucinewgame", "quit"}
           THEN proc' = proc
           ELSE proc' = [proc EXCEPT !.pos = Head(stdin)[2]]
    /\ UNCHANGED <<uOp, uRd, uToken, elapsed, uLines, uPos, stdout, goLog, hs, quitLog, newGames>>
    /\ UNCHANGED otherVars

\* The engine prints its next line.
ProcEmit ==
    /\ proc.alive
    /\ proc.pending # <<>>
    /\ Len(stdout) < MaxPipe
    /\ stdout' = Append(stdout, Head(proc.pending))
    /\ proc' = [proc EXCEPT !.pending = Tail(@)]
    /\ UNCHANGED <<uOp, uRd, uToken, elapsed, uLines, uPos, stdin, goLog, hs, quitLog, newGames>>
    /\ UNCHANGED otherVars

\* The engine process ends: on its own, on a quit command or on SIGTERM.
ProcDie ==
    /\ proc.alive
    /\ proc' = [proc EXCEPT !.alive = FALSE, !.pending = <<>>]
    /\ stdin' = <<>>
    /\ UNCHANGED <<uOp, uRd, uToken, elapsed, uLines, uPos, stdout, goLog, hs, quitLog, newGames>>
    /\ UNCHANGED otherVars

\* The caller's program: quit() is its last call, but for a repeated quit().
InUse == quitLog = <<>>

ClientStep ==
    \/ Construct
    \/ InitWrite
    \/ ReadCheck
    \/ ReadLine
    \/ InUse /\ Setoption
    \/ InUse /\ Ucinewgame
    \/ UcinewgameReady
    \/ \E f \in UciFens : InUse /\ PositionFen(f)
    \/ InUse /\ GoAndGet
    \/ Quit

NextUCI ==
    \/ Construct
    \/ InitWrite
    \/ ReadCheck
    \/ ReadLine
    \/ InUse /\ Setoption
    \/ InUse /\ Ucinewgame
    \/ UcinewgameReady
    \/ \E f \in UciFens : InUse /\ PositionFen(f)
    \/ InUse /\ GoAndGet
    \/ Quit
    \/ Tick
    \/ ProcConsume
    \/ ProcEmit
    \/ ProcDie

\* The first go_and_get of a client.
FirstGo == goLog = <<>> /\ GoAndGet

\* The first calls on a client: its construction, options, a position, one
\* search; the process is free to print, to die or to stay silent.
NextStart ==
    \/ Construct
    \/ InitWrite
    \/ ReadCheck
    \/ ReadLine
    \/ Setoption
    \/ \E f \in UciFens : PositionFen(f)
    \/ FirstGo
    \/ Tick
    \/ ProcConsume
    \/ ProcEmit
    \/ ProcDie

\* The lines a long search may print: scores of both kinds and signs, a
\* mate in 0, info lines without a score (one of them holding the word
\* bestmove), a line that is not an info line.
LongLines(for) ==
    {Line("info_cp", 30, for), Line("info_cp", -40, for),
     Line("info_mate", 3, for), Line("info_mate", -2, for),
     Line("info_mate", 0, for),
     Line("info_other", 0, for), Line("info_bestmove", 0, for),
     Line("text_cp", 77, for)}
LongSeqs(for) == UNION {[1..n -> LongLines(for)] : n \in 0..MaxInfo}

\* The engine reads a go command and searches long.
ProcSearchLong ==
    /\ proc.alive
    /\ stdin # <<>>
    /\ Head(stdin)[1] = "go"
    /\ proc.pending = <<>>
    /\ stdin' = Tail(stdin)
    /\ \E infos \in LongSeqs(proc.pos) :
           proc' = [proc EXCEPT !.pending =
                       Append(infos, Line("bestmove", 0, proc.pos))]
    /\ UNCHANGED <<uOp, uRd, uToken, elapsed, uLines, uPos, stdout, goLog, hs, quitLog, newGames>>
    /\ UNCHANGED otherVars

NextGo ==
    \/ Construct
    \/ InitWrite
    \/ ReadCheck
    \/ ReadLine
    \/ \E f \in UciFens : PositionFen(f)
    \/ FirstGo
    \/ ProcConsume
    \/ ProcSearchLong
    \/ ProcEmit

\* eval_board(board) for a FEN that is not cached, up to the readline of
\* go_and_get: position_fen(fen) and "go depth" are written and
\* _read_until("bestmove") is entered. (For a cached FEN eval_board returns
\* the entry and changes nothing.)
EvalBoardCall(fen) ==
    /\ uOp = "idle"
    /\ proc.alive
    /\ fen \notin DOMAIN cache
    /\ Len(goLog) < MaxGo
    /\ Len(stdin) < MaxPipe
    /\ stdin' = stdin \o <<Cmd("position", fen), Cmd("go", NoFen)>>
    /\ uPos' = fen
    /\ StartRead("go", "bestmove")
    /\ hs' = NoteWrite(NoteWrite(hs, "position"), "go")
    /\ UNCHANGED <<stdout, proc, goLog, quitLog, newGames>>
    /\ UNCHANGED otherVars

\* The readline reads the awaited bestmove line of a go_and_get.
GoReturns ==
    /\ uRd = "blocked" /\ uOp = "go"
    /\ stdout # <<>> /\ Contains(Head(stdout), uToken)

\* A readline of the go_and_get that eval_board called; when go_and_get
\* returns, eval_board stores "self.cache[fen] = cp_score" and returns.
EvalReadLine ==
    /\ ReadLineBody
    /\ cache' = IF GoReturns
                THEN CachePut(cache, uPos,
                              GoResult(Append(uLines, Head(stdout)), uPos).cp)
                ELSE cache
    /\ UNCHANGED <<threshold, topK, reqCount, callVars, mctsVars>>

NextEval ==
    \/ Construct
    \/ InitWrite
    \/ ReadCheck
    \/ EvalReadLine
    \/ \E f \in UciFens : EvalBoardCall(f)
    \/ Tick
    \/ ProcConsume
    \/ ProcEmit

\* The filter that would own the engine, with the constructor's default
\* threshold.
InitEngine ==
    /\ InitCalls
    /\ threshold = -100
    /\ topK = MaxTopK

\* One UCIEngine and its process.
SpecUCI == InitEngine /\ [][NextUCI]_vars

\* The start of one UCIEngine and its process.
SpecStart == InitEngine /\ [][NextStart]_vars

\* The first search of a client whose engine answers in time.
SpecGo == InitEngine /\ [][NextGo]_vars

\* A filter evaluating positions through its UCIEngine; its caller goes on
\* after an error of eval_board.
SpecEval == InitEngine /\ [][NextEval]_vars

\* The client thread runs whenever it can and time passes; the process is
\* free to print, to die or to stay silent.
FairUCI == SpecUCI /\ WF_vars(ClientStep) /\ WF_vars(Tick)

\* ------------------------------------------------- properties of the search

\* The simulations completed so far whose selection path holds node id.
VisitsOf(id) ==
    Cardinality({k \in 1..Len(simLog) : id \in SeqToSet(simLog[k].path)})
\* The path and the leaf value of the last completed simulation.
LastPath == simLog[Len(simLog)].path
LastValue == simLog[Len(simLog)].value
\* The completed simulations that stopped at the root.
StoppedAtRoot ==
    Cardinality({k \in 1..Len(simLog) : Len(simLog[k].path) = 1})
RECURSIVE SumChildN(_, _)
SumChildN(t, kids) ==
    IF kids = <<>> THEN 0 ELSE t[Head(kids)[2]].N + SumChildN(t, Tail(kids))
AltSign(k) == IF k % 2 = 0 THEN 1 ELSE -1
\* The position the search was started from.
RootPos == tree[Root].board[1]

\* C1: every node's N is the number of completed simulations whose selection
\* path passed through it; a simulation leaves N unchanged off its path; and
\* when run_simulations(root, n) has returned, root.N = n.
C1_VisitCountIsPathCount ==
    /\ \A id \in 1..Len(tree) : tree[id].N = VisitsOf(id)
    /\ simLog # <<>> =>
          \A id \in 1..Len(prevTree) :
              tree[id].N = prevTree[id].N
                           + (IF id \in SeqToSet(LastPath) THEN 1 ELSE 0)
    /\ pc = "done" => tree[Root].N = nSim

\* C1 witness: a finished run of at least three simulations in which some
\* node was passed by more than one but not by all of them.
C1_Witness ==
    /\ pc = "done" /\ nSim >= 3
    /\ \E id \in 1..Len(tree) : tree[id].N > 1 /\ tree[id].N < nSim
    /\ \E id \in 1..Len(tree) : id \notin SeqToSet(LastPath)

\* C2 as stated: children's visit counts plus 1 if any simulation stopped at
\* the root equal root.N.
C2_AsStated ==
    pc = "done" =>
        SumChildN(tree, tree[Root].children)
        + (IF StoppedAtRoot > 0 THEN 1 ELSE 0) = tree[Root].N

\* C2 (amended): after run_simulations(root, n), the children's visit counts
\* plus the number of simulations that stopped at the root equal root.N.
C2_ChildrenPlusRootStops ==
    pc = "done" =>
        SumChildN(tree, tree[Root].children) + StoppedAtRoot = tree[Root].N

\* C2 witnesses: a finished run with two visited children, and (for the
\* amendment) one in which several simulations stopped at the root.
C2_Witness ==
    /\ pc = "done"
    /\ \/ (Len(tree[Root].children) >= 2 /\ tree[Root].N >= 3)
       \/ StoppedAtRoot >= 2

\* C3 as stated: the last simulation added v * (-1)^d to the W of its path's
\* node at depth d from the root.
C3_AsStated ==
    simLog # <<>> =>
        \A i \in 1..Len(LastPath) :
            tree[LastPath[i]].W - prevTree[LastPath[i]].W
                = LastValue * AltSign(i - 1)

\* C3 (amended): the last simulation added v * (-1)^(L - d) to the W of its
\* path's node at depth d, L being the depth of the node it stopped at.
C3_SignAlternatesFromLeaf ==
    simLog # <<>> =>
        \A i \in 1..Len(LastPath) :
            tree[LastPath[i]].W - prevTree[LastPath[i]].W
                = LastValue * AltSign(Len(LastPath) - i)

\* C3 witness: a simulation with a leaf value other than 0 that stopped at
\* odd depth, where the two formulas differ.
C3_Witness ==
    /\ simLog # <<>>
    /\ LastValue # 0
    /\ Len(LastPath) % 2 = 0

\* C8: best_move of any node is the move of a child with the largest N, the
\* first inserted of those; it is no move exactly when there is no child.
C8_BestMoveFirstMax ==
    \A id \in 1..Len(tree) :
        LET kids == tree[id].children
            r == BestMove(tree, id)
        IN  /\ (r = NoMove) <=> (kids = <<>>)
            /\ kids # <<>> =>
                 \E i \in 1..Len(kids) :
                    /\ kids[i][1] = r
                    /\ \A j \in 1..Len(kids) : tree[kids[j][2]].N <= tree[kids[i][2]].N
                    /\ \A j \in 1..(i - 1) : tree[kids[j][2]].N < tree[kids[i][2]].N

\* C8 witness: the root's largest N is shared by two children, and the first
\* inserted of them is not the first in legal-move order.
C8_Witness ==
    LET kids == tree[Root].children
    IN  /\ Len(kids) >= 2
        /\ tree[kids[1][2]].N = tree[kids[2][2]].N
        /\ \A j \in 1..Len(kids) : tree[kids[j][2]].N <= tree[kids[1][2]].N
        /\ kids[1][1] = "b" /\ kids[2][1] = "a"
        /\ BestMove(tree, Root) = "b"

\* C9: a search from a game-over position that ran n >= 1 simulations has
\* no best move, a root marked terminal and without children, and has sent
\* nothing to the evaluator.
C9_TerminalRoot ==
    (pc = "done" /\ nSim >= 1 /\ GameOver(RootPos)) =>
        /\ BestMove(tree, Root) = NoMove
        /\ tree[Root].terminal
        /\ tree[Root].children = <<>>
        /\ reqCount = 0

\* C9 witness: two simulations done from the drawn position 6, which is
\* game over although a move is legal.
C9_Witness ==
    /\ pc = "done" /\ nSim >= 2
    /\ GameOver(RootPos) /\ GameLegal(RootPos) # <<>>

\* C10 as stated: from a root with exactly one legal move, best_move is
\* that move after n >= 1 simulations, for every threshold, every top_k
\* and every score of the successor, whether or not the game is over at
\* the root.
C10_AsStated ==
    (pc = "done" /\ nSim >= 1 /\ Len(GameLegal(RootPos)) = 1) =>
        BestMove(tree, Root) = GameLegal(RootPos)[1]

\* C10 (amended): from a root that is not game over, has exactly one legal
\* move, and is searched with top_k >= 1, best_move is that move after
\* n >= 1 simulations, for every threshold and every score of the
\* successor. (At a root that is game over run_simulations breaks before
\* selecting, so the root gets no child and best_move is None, as in C9.)
C10_OnlyMoveIsBest ==
    (pc = "done" /\ nSim >= 1 /\ ~GameOver(RootPos)
        /\ Len(GameLegal(RootPos)) = 1 /\ topK >= 1) =>
        BestMove(tree, Root) = GameLegal(RootPos)[1]

\* C10 witness: the only move's successor was scored below the threshold.
C10_Witness ==
    /\ pc = "done" /\ nSim >= 1 /\ topK >= 1
    /\ ~GameOver(RootPos) /\ Len(GameLegal(RootPos)) = 1
    /\ LET fen == Fen(Push(<<RootPos>>, GameLegal(RootPos)[1]))
       IN  fen \in DOMAIN cache /\ cache[fen] < threshold
    /\ BestMove(tree, Root) = GameLegal(RootPos)[1]

\* C16: once an evaluator request of run_simulations has failed, the call
\* has ended by raising and stays so: the simulation under way is not
\* completed (no rollout, no backpropagation), none is started, and the
\* cache holds no score for the position whose request failed.
C16_TimeoutPropagates ==
    raisedAt # NoFen =>
        /\ pc = "raised"
        /\ simsDone < nSim
        /\ Len(simLog) = simsDone
        /\ tree[Root].N = simsDone
        /\ raisedAt \notin DOMAIN cache

\* C16 witness: a request failed in the third simulation or later, after
\* other positions had been scored and cached.
C16_Witness ==
    /\ pc = "raised" /\ raisedAt # NoFen
    /\ simsDone >= 2
    /\ cache # NoCache
    /\ cur # Root

\* The place of move m in the list s.
PlaceIn(s, m) == CHOOSE i \in 1..Len(s) : s[i] = m
\* No backpropagation has changed the tree since the last selection call,
\* and that call returned.
SelectionFresh ==
    lastSel.node # NoNode /\ lastSel.at = simsDone /\ pc # "raised"

\* C17: the move a selection step returns is, among the moves filter_moves
\* returned, the one no other beats: no other has a greater UCB score, and
\* one with an equal score comes later in the legal-move order; there is
\* no move exactly when filter_moves returned an empty list.
C17_HighestRankedKept ==
    SelectionFresh =>
        LET id == lastSel.node
            legal == LegalMoves(tree[id].board)
            kept == SeqToSet(lastSel.kept)
            mv == lastSel.mv
        IN  /\ (mv = NoMove) <=> (lastSel.kept = <<>>)
            /\ mv # NoMove =>
                  /\ mv \in kept
                  /\ \A m \in kept \ {mv} :
                        /\ ~UcbGreater(tree, id, m, mv)
                        /\ \/ UcbGreater(tree, id, mv, m)
                           \/ PlaceIn(legal, mv) < PlaceIn(legal, m)

\* C17 witness: a visited node whose UCB ranking is not the legal-move
\* order, two moves returned by the filter, and the better one selected.
C17_Witness ==
    /\ SelectionFresh
    /\ Len(lastSel.kept) = 2
    /\ lastSel.sorted # LegalMoves(tree[lastSel.node].board)
    /\ lastSel.mv # NoMove
    /\ UcbGreater(tree, lastSel.node, lastSel.mv,
                  CHOOSE m \in SeqToSet(lastSel.kept) : m # lastSel.mv)

\* The node k parent-steps above node id (NoNode above the root).
RECURSIVE Ancestor(_, _, _)
Ancestor(t, id, k) ==
    IF k = 0 \/ id = NoNode THEN id ELSE Ancestor(t, t[id].parent, k - 1)
\* The node the last completed simulation stopped at.
LastStop == LastPath[Len(LastPath)]

\* C18: the last backpropagation, from the node s the simulation stopped
\* at with value v, added v * (-1)^k to the W of the node k parent-steps
\* above s, for k = 0 up to the root, and left every other node's W alone.
C18_BackpropFrame ==
    simLog # <<>> =>
        /\ \E k \in 0..Len(prevTree) : Ancestor(prevTree, LastStop, k) = Root
        /\ \A id \in 1..Len(prevTree) :
              LET ks == {k \in 0..Len(prevTree) :
                            Ancestor(prevTree, LastStop, k) = id}
              IN  IF ks = {}
                  THEN tree[id].W = prevTree[id].W
                  ELSE \A k \in ks :
                          tree[id].W = prevTree[id].W + LastValue * AltSign(k)

\* C18 witness: a simulation with a value other than 0 that stopped below
\* the root, in a tree with a visited node off its path.
C18_Witness ==
    /\ simLog # <<>>
    /\ LastValue # 0
    /\ Len(LastPath) >= 2
    /\ \E id \in 1..Len(prevTree) :
          /\ id \notin SeqToSet(LastPath)
          /\ prevTree[id].N > 0
    /\ tree[Root].W # prevTree[Root].W

\* Node id of tree t has a child for move m.
HasChildFor(t, id, m) ==
    \E i \in 1..Len(t[id].children) : t[id].children[i][1] = m

\* The nodes created so far are at most one per completed simulation, plus
\* the one of the simulation under way once its selection has stopped.
NodeCountBound ==
    /\ Len(tree) <= 1 + simsDone + (IF pc = "rollout" THEN 1 ELSE 0)
    /\ pc = "done" => Len(tree) <= 1 + nSim

\* What one step does to the tree: nodes keep their parent, move and
\* children, in order; at most one node is added, by a selection step that
\* stops there, as the child of the current node for the selected move,
\* which had no child; and a selection step whose move has a child
\* descends into that child and adds nothing.
TreeStep ==
    /\ Len(tree') \in {Len(tree), Len(tree) + 1}
    /\ \A id \in 1..Len(tree) :
          /\ tree'[id].parent = tree[id].parent
          /\ tree'[id].move = tree[id].move
          /\ Len(tree'[id].children) >= Len(tree[id].children)
          /\ SubSeq(tree'[id].children, 1, Len(tree[id].children))
                = tree[id].children
    /\ Len(tree') = Len(tree) + 1 =>
          LET new == Len(tree')
          IN  /\ pc = "select" /\ pc' = "rollout" /\ cur' = new
              /\ tree'[new].parent = cur
              /\ tree'[new].move = lastSel'.mv
              /\ tree'[new].children = <<>> /\ tree'[new].N = 0
              /\ ~HasChildFor(tree, cur, tree'[new].move)
              /\ tree'[cur].children
                    = Append(tree[cur].children, <<tree'[new].move, new>>)
              /\ \A id \in 1..Len(tree) :
                    id # cur => tree'[id].children = tree[id].children
    /\ (pc = "select" /\ ~NodeGameOver(tree, cur) /\ pc' # "raised"
          /\ lastSel'.mv # NoMove /\ HasChildFor(tree, cur, lastSel'.mv))
       => /\ Len(tree') = Len(tree)
          /\ \E i \in 1..Len(tree[cur].children) :
                tree[cur].children[i] = <<lastSel'.mv, cur'>>

\* C19: each simulation adds at most one node, only as the child for a
\* move that had none at the node where selection stopped; an existing
\* child is never removed or replaced and is descended into when its move
\* is selected again; after n simulations the tree has at most 1 + n nodes.
C19_TreeGrowsByOne == []NodeCountBound /\ [][TreeStep]_vars

\* C19 witness: a finished search in which a child was descended into
\* again and some simulation added no node.
C19_Witness ==
    /\ pc = "done" /\ nSim >= 3
    /\ Len(tree) >= 3 /\ Len(tree) < 1 + nSim
    /\ \E id \in 2..Len(tree) : tree[id].N >= 2 /\ tree[id].children # <<>>

\* No simulation is under way: before the first, after a backpropagation
\* and the next "node = root", or after the last.
BetweenSimulations ==
    \/ pc \in {"idle", "done"}
    \/ pc = "select" /\ path = <<Root>>

\* C23: between simulations every node has -N <= W <= N, so a node with
\* N = 0 has W = 0, and every node but the root has N >= 1.
C23_ValueWithinVisits ==
    BetweenSimulations =>
        \A id \in 1..Len(tree) :
            /\ -tree[id].N <= tree[id].W /\ tree[id].W <= tree[id].N
            /\ tree[id].N = 0 => tree[id].W = 0
            /\ id # Root => tree[id].N >= 1

\* C23 witness: a finished search whose tree holds a node at the bound
\* W = -N or W = N with N >= 2, a node with 0 < |W| < N, and a node
\* visited once.
C23_Witness ==
    /\ pc = "done"
    /\ \E id \in 1..Len(tree) :
          tree[id].N >= 2 /\ tree[id].W \in {tree[id].N, -tree[id].N}
    /\ \E id \in 1..Len(tree) :
          /\ tree[id].W # 0
          /\ -tree[id].N < tree[id].W /\ tree[id].W < tree[id].N
    /\ \E id \in 2..Len(tree) : tree[id].N = 1

\* The node where completed simulation i stopped.
StopOf(i) == simLog[i].path[Len(simLog[i].path)]
\* The completed simulations among the first n that did not stop at a
\* game-over node.
Expanding(n) == {i \in 1..n : ~NodeGameOver(tree, StopOf(i))}
\* The evaluator has answered every request of the search so far.
AlwaysAnswered == raisedAt = NoFen /\ pc # "raised"

\* Completed simulation i created the node where it stopped: the node is
\* not the root and on no earlier simulation's path.
Created(i) ==
    StopOf(i) \notin
        {Root} \cup UNION {SeqToSet(simLog[j].path) : j \in 1..(i - 1)}
\* The completed simulations among the first n that created a node.
CreatedIn(n) == {i \in 1..n : Created(i)}
\* With top_k >= 1 and an evaluator that answers, a _select_child_filtered
\* call (made at nodes that are not game over only) returns a move.
SelectionYieldsMove ==
    (topK >= 1 /\ AlwaysAnswered /\ lastSel.node # NoNode)
        => lastSel.mv # NoMove

\* C24 as stated: with top_k >= 1 and an evaluator that always answers,
\* selection always yields a move, and between simulations the number of
\* nodes is 1 + the number of simulations that did not stop at a game-over
\* node.
C24_AsStated ==
    /\ SelectionYieldsMove
    /\ (topK >= 1 /\ AlwaysAnswered /\ BetweenSimulations) =>
          Len(tree) = 1 + Cardinality(Expanding(Len(simLog)))

\* C24 (amended): with top_k >= 1 and an evaluator that always answers,
\* selection always yields a move; every completed simulation stopped at
\* a game-over node that existed before it or at the one node it created
\* (game over or not); and between simulations the number of nodes is
\* 1 + the number of simulations that created a node.
C24_NoDeadEnd ==
    /\ SelectionYieldsMove
    /\ (topK >= 1 /\ AlwaysAnswered) =>
          /\ \A i \in 1..Len(simLog) :
                /\ Created(i) \/ NodeGameOver(tree, StopOf(i))
                /\ Created(i) => StopOf(i) = 1 + Cardinality(CreatedIn(i))
          /\ BetweenSimulations =>
                Len(tree) = 1 + Cardinality(CreatedIn(Len(simLog)))

\* C24 witness: a finished search with top_k >= 1 and no evaluator error
\* in which one simulation created a game-over node below the root's
\* children and a later one stopped at it.
C24_Witness ==
    /\ pc = "done" /\ topK >= 1 /\ AlwaysAnswered
    /\ \E i \in 1..Len(simLog) : \E j \in (i + 1)..Len(simLog) :
          /\ Created(i) /\ NodeGameOver(tree, StopOf(i))
          /\ Len(simLog[i].path) >= 3
          /\ ~Created(j) /\ StopOf(j) = StopOf(i)

\* ------------------------------------------------- properties of the filter

\* The last direct filter_moves call returned (it did not raise).
FilterReturned == last.kind = "filter" /\ ~last.raised
\* No evaluation of the last call reached the threshold.
NoneMeets == \A i \in 1..Len(last.evals) : last.evals[i][3] < threshold

\* What C4 says of a returned call whose scored candidates all fail.
FallbackIsBest ==
    (FilterReturned /\ last.evals # <<>> /\ NoneMeets) =>
        /\ Len(last.kept) = 1
        /\ \E i \in 1..Len(last.evals) :
              /\ last.evals[i][1] = last.kept[1]
              /\ \A j \in 1..Len(last.evals) :
                    last.evals[j][3] <= last.evals[i][3]

\* C4 as stated: filter_moves with a non-empty candidate list returns a
\* non-empty list for every threshold, top_k and scores; and the fallback
\* is one scored candidate with the maximum score.
C4_AsStated ==
    /\ (FilterReturned /\ last.cands # <<>>) => last.kept # <<>>
    /\ FallbackIsBest

\* C4 (amended): with top_k >= 1, filter_moves with a non-empty candidate
\* list returns a non-empty list for every threshold and scores; and for
\* every top_k the fallback is one scored candidate with the maximum score.
C4_FallbackWithTopK ==
    /\ (FilterReturned /\ last.cands # <<>> /\ topK >= 1) => last.kept # <<>>
    /\ FallbackIsBest

\* C4 witness: two candidates scored, differently, both below the
\* threshold, and the better one returned.
C4_Witness ==
    /\ FilterReturned /\ topK >= 1 /\ NoneMeets
    /\ Len(last.evals) = 2
    /\ last.evals[1][3] < last.evals[2][3]
    /\ last.kept = <<last.evals[2][1]>>

\* C5: an eval_board call (direct, or made by filter_moves) for a FEN that
\* an earlier eval_board call returned a score for, with no clear since,
\* returns that score and sends nothing to the evaluator.
C5_CachedEvalRepeats ==
    \A f \in DOMAIN last.seen :
        /\ \A i \in 1..Len(last.reqs) : last.reqs[i] # f
        /\ \E i \in 1..Len(last.evals) : last.evals[i][2] = f
        /\ \A i \in 1..Len(last.evals) :
              last.evals[i][2] = f => last.evals[i][3] = last.seen[f]
        /\ last.kind = "eval" => ~last.raised

\* C5 witness: a direct eval_board call on the board <<1, 2>> repeating
\* the FEN of an earlier call.
C5_Witness ==
    /\ last.kind = "eval"
    /\ last.board = <<1, 2>>
    /\ DOMAIN last.seen = {Fen(<<2>>)}
    /\ last.evals # <<>>

\* The places, in evaluation order, of the evaluations of the last call
\* that reached the threshold.
RECURSIVE PassingPlaces(_)
PassingPlaces(n) ==
    IF n = 0 THEN <<>>
    ELSE IF last.evals[n][3] >= threshold
         THEN Append(PassingPlaces(n - 1), n)
         ELSE PassingPlaces(n - 1)

\* C20: when some evaluated candidate has a score >= the threshold,
\* filter_moves returns exactly the evaluated candidates with a score >=
\* the threshold (equality included), in evaluation order: no move scored
\* below the threshold and no move that was not evaluated is returned.
C20_KeptAreThePassing ==
    (FilterReturned /\ ~NoneMeets) =>
        LET places == PassingPlaces(Len(last.evals))
        IN  /\ Len(last.kept) = Len(places)
            /\ \A i \in 1..Len(places) :
                  last.kept[i] = last.evals[places[i]][1]
            /\ \A i \in 1..Len(last.kept) :
                  \E j \in 1..Len(last.evals) :
                      /\ last.evals[j][1] = last.kept[i]
                      /\ last.evals[j][3] >= threshold

\* C20 witness: three candidates, two evaluated, the first below the
\* threshold and the second equal to it; the second alone is returned.
C20_Witness ==
    /\ FilterReturned
    /\ Len(last.cands) = 3 /\ Len(last.evals) = 2
    /\ last.evals[1][3] < threshold
    /\ last.evals[2][3] = threshold
    /\ last.kept = <<last.evals[2][1]>>

\* ------------------------------------ properties of the reconfigured call

\* The call and its twin both returned.
TwinReturned == ~twin.a.raised /\ ~twin.b.raised

\* C11: for the same candidates, cache and evaluator scores, the filter
\* with the higher threshold returns no more moves than the one with the
\* lower threshold, the fallback included.
C11_ThresholdMonotone ==
    (twin.kind = "threshold" /\ TwinReturned) =>
        /\ twin.ta <= twin.tb => Len(twin.b.kept) <= Len(twin.a.kept)
        /\ twin.tb <= twin.ta => Len(twin.a.kept) <= Len(twin.b.kept)

\* C11 witness: two candidates scored differently; the higher threshold
\* keeps one of them and the lower threshold keeps both.
C11_Witness ==
    /\ twin.kind = "threshold" /\ TwinReturned
    /\ twin.tb < twin.ta
    /\ Len(twin.a.scored) = 2
    /\ Len(twin.a.kept) = 1 /\ Len(twin.b.kept) = 2
    /\ \E i \in 1..2 : twin.a.scored[i][2] >= twin.ta

\* The requests of the call with the smaller top_k are no more than those
\* of the call with the larger one.
TopKOrdered ==
    /\ twin.ka <= twin.kb => Len(twin.a.reqs) <= Len(twin.b.reqs)
    /\ twin.kb <= twin.ka => Len(twin.b.reqs) <= Len(twin.a.reqs)

\* A call that returned with top_k above the candidate count has scored
\* every candidate.
LargeTopKScoresAll ==
    /\ (~twin.a.raised /\ twin.ka > Len(twin.cands)) =>
           Len(twin.a.scored) = Len(twin.cands)
    /\ (~twin.b.raised /\ twin.kb > Len(twin.cands)) =>
           Len(twin.b.scored) = Len(twin.cands)

\* C12 as stated: for any two top_k values, the smaller one sends no more
\* requests to the evaluator; and a top_k above the candidate count scores
\* all candidates.
C12_AsStated ==
    twin.kind = "topk" => (TopKOrdered /\ LargeTopKScoresAll)

\* C12 (amended): for any two top_k values that are not negative, the
\* smaller one sends no more requests to the evaluator; and a top_k above
\* the candidate count scores all candidates.
C12_TopKMonotone ==
    twin.kind = "topk" =>
        /\ (twin.ka >= 0 /\ twin.kb >= 0) => TopKOrdered
        /\ LargeTopKScoresAll

\* C12 witness: two candidates, none cached; top_k = 1 sends one request
\* and a top_k above the candidate count sends two and scores both.
C12_Witness ==
    /\ twin.kind = "topk" /\ TwinReturned
    /\ Len(twin.cands) = 2
    /\ twin.ka = 1 /\ twin.kb > Len(twin.cands)
    /\ Len(twin.a.reqs) = 1 /\ Len(twin.b.reqs) = 2
    /\ Len(twin.b.scored) = 2

\* ----------------------------------------- properties of the UCI client

UciTokens == {"uciok", "readyok", "bestmove"}

\* C6: once a go_and_get has raised its timeout error, no later go_and_get
\* on the same UCIEngine returns a result.
C6_AsStated ==
    \A i \in 1..Len(goLog) : \A j \in 1..Len(goLog) :
        (i < j /\ goLog[i].status = "timeout") => goLog[j].status # "ok"

\* C7: every _read_until ends: the wait for a token is over at some point,
\* by the token or by the timeout error, whatever the process does.
C7_AsStated ==
    \A t \in UciTokens : (uToken = t) ~> (uToken # t)

\* The places of event e in hs.
PlacesOf(e) == {i \in 1..Len(hs) : hs[i] = e}
\* The commands of a constructed client.
ClientCmds == {"setoption", "position", "go"}

\* The event at place j of hs is the read of a line that holds token.
ReadHolding(j, token) ==
    /\ hs[j][1] = "r"
    /\ token \in TokensIn([kind |-> hs[j][2]])

\* C13: uci is the first thing written; isready is written only after a
\* line holding uciok was read; UCIEngine(path) returns only after a line
\* holding readyok was read; and no setoption, position or go is written
\* before it has returned.
C13_HandshakeOrder ==
    /\ hs # <<>> => hs[1] = Wrote("uci")
    /\ \A i \in PlacesOf(Wrote("isready")) :
          \E j \in 1..(i - 1) : ReadHolding(j, "uciok")
    /\ \A i \in PlacesOf(Constructed) :
          /\ \E j \in 1..(i - 1) : ReadHolding(j, "readyok")
          /\ \E j \in 1..(i - 1) : hs[j] = Wrote("isready")
    /\ \A c \in ClientCmds : PlacesOf(Wrote(c)) = {}
    /\ (uOp \in {"idle", "go", "newgame_write", "ucinewgame"} \/ uPos # NoFen
          \/ goLog # <<>>
          \/ \E i \in 1..Len(stdin) : stdin[i][1] \in ClientCmds)
       => PlacesOf(Constructed) # {}

\* C13 witness: a client that wrote isready after an id line holding the
\* word uciok, read the uciok line and readyok, was constructed, and has
\* since sent a position and completed a search.
C13_Witness ==
    /\ hs = <<Wrote("uci"), <<"r", "id_uciok">>, Wrote("isready"),
              <<"r", "uciok">>, <<"r", "readyok">>, Constructed>>
    /\ uPos # NoFen
    /\ goLog # <<>> /\ goLog[1].status = "ok"

\* The places of the score annotations in a list of lines read.
AnnotationPlaces(lines) ==
    {i \in 1..Len(lines) : lines[i].kind \in {"info_cp", "info_mate"}}
\* The greatest element of a non-empty set of places.
LastPlace(places) == CHOOSE i \in places : \A j \in places : j <= i

\* C14: a go_and_get that returned gives the score of the last score
\* annotation among the lines it read: cp n gives score n and no mate
\* distance; mate n gives mate distance n and score +100000 for n > 0 and
\* -100000 otherwise; no other line and no earlier annotation counts.
C14_LastAnnotationWins ==
    \A k \in 1..Len(goLog) :
        goLog[k].status = "ok" =>
            LET r == goLog[k]
                places == AnnotationPlaces(r.lines)
            IN  IF places = {}
                THEN r.cp = 0 /\ ~r.mateSet
                ELSE LET l == r.lines[LastPlace(places)]
                     IN  IF l.kind = "info_cp"
                         THEN r.cp = l.val /\ ~r.mateSet
                         ELSE /\ r.mateSet /\ r.mate = l.val
                              /\ r.cp = IF l.val > 0 THEN MateCp ELSE -MateCp

\* C14 witness: a search that printed a mate annotation and then a cp
\* annotation, and one that printed a mate in 0 and then a line holding
\* "score cp" that is not an info line.
C14_Witness ==
    /\ Len(goLog) = 1 /\ goLog[1].status = "ok"
    /\ Len(goLog[1].lines) = 3
    /\ \/ /\ goLog[1].lines[1].kind = "info_mate"
          /\ goLog[1].lines[2].kind = "info_cp"
          /\ goLog[1].cp = goLog[1].lines[2].val
       \/ /\ goLog[1].lines[1].kind = "info_mate"
          /\ goLog[1].lines[1].val = 0
          /\ goLog[1].lines[2].kind = "text_cp"
          /\ goLog[1].cp = -MateCp

\* C15: no quit call raises, every quit call leaves the process stopped
\* when it returns, whether the process was running or already gone,
\* before or after a timed-out search; and a quit call after the first
\* changes nothing.
C15_AsStated ==
    \A k \in 1..Len(quitLog) :
        /\ ~quitLog[k].raised
        /\ ~quitLog[k].after
        /\ k > 1 => quitLog[k].same

\* C21: each cache entry (k, s) holds the score the evaluator reported in
\* response to the search request issued for exactly position k: the lines
\* the score was read from, and the bestmove line that ended the read, all
\* come from one search of k; also after an earlier request timed out.
C21_AsStated ==
    \A k \in DOMAIN cache :
        \E i \in 1..Len(goLog) :
            /\ goLog[i].status = "ok"
            /\ goLog[i].req = k
            /\ goLog[i].cp = cache[k]
            /\ goLog[i].src = k
            /\ \A j \in 1..Len(goLog[i].lines) : goLog[i].lines[j].for = k

\* C22: across eval_board, filter_moves and run_simulations calls, with no
\* clear, a cache entry once written is never overwritten or removed: at
\* every step the keys are kept and each key keeps its value.
C22_EntriesKept ==
    [][\A k \in DOMAIN cache : k \in DOMAIN cache' /\ cache'[k] = cache[k]]_vars

\* C22 witness: a finished search that sent requests, on a cache that
\* direct calls had filled before and that a direct filter_moves call looked
\* at afterwards: all entries the direct calls returned still stand.
C22_Witness ==
    /\ pc = "done" /\ simsDone >= 2 /\ reqCount >= 1
    /\ last.kind = "filter" /\ ~last.raised /\ last.evals # <<>>
    /\ last.reqs = <<>>
    /\ Cardinality(DOMAIN cache) >= 3
    /\ \A k \in DOMAIN returned : k \in DOMAIN cache /\ cache[k] = returned[k]

\* The tree as it was after the last completed simulation (as constructed,
\* when none was completed).
TreeAfterLast ==
    IF simLog = <<>> THEN <<NewNode(<<RootPos>>, NoNode, NoMove)>>
    ELSE Backpropagate(prevTree, LastStop, LastValue)

\* C25: when run_simulations has ended by an evaluator error, every node's
\* N, W, children and position are as they were after the last completed
\* simulation (the move applied for the evaluation is undone); and every
\* direct filter_moves call, returned or raised, leaves the board it was
\* given as it was.
C25_AsStated ==
    /\ pc = "raised" =>
          /\ Len(tree) = Len(TreeAfterLast)
          /\ \A id \in 1..Len(tree) :
                /\ tree[id].N = TreeAfterLast[id].N
                /\ tree[id].W = TreeAfterLast[id].W
                /\ tree[id].children = TreeAfterLast[id].children
                /\ tree[id].board = TreeAfterLast[id].board
    /\ last.kind = "filter" => last.board \in FilterBoards

====
